---- MODULE Spec2Model ----
(***************************************************************************)
(* Model of the mortality alert engine of quality-alerts (models.py):      *)
(* the monthly_mortality table, the live aggregate, one evaluation run of  *)
(* calculate_model_results and the pure helpers it calls.                  *)
(*                                                                         *)
(* Numbers.  deaths and total_patients are integers.  A mortality rate is  *)
(* an integer number of hundredths of a percent (the code rounds rates to  *)
(* 2 decimals).  A quotient is a record [num, den] with den > 0.  A        *)
(* baseline is a record [num, den, vnum, vden] standing for the real       *)
(* number num/den + sqrt(vnum/vden), which is what mean() + 1 * std()      *)
(* yields; comparisons are exact (cross multiplication and squaring).      *)
(* A pandas DataFrame is a sequence of rows, an Optional value a sequence  *)
(* of length 0 (None) or 1.                                                *)
(***************************************************************************)
EXTENDS Integers, Sequences, FiniteSets, TLC

VARIABLES
    store,                        \* rows of table monthly_mortality
    today,                        \* date.today() as <<year, month>>
    live_fetch,                   \* "skipped", "ok" or "failed": the live batch query
    expected_fetch,               \* the same for the expected-death-percentage query
    error_log,                    \* hospitals whose iteration raised (the except branch)
    pc,                           \* "idle", "loop", "done", "pure"
    model_id,                     \* argument of calculate_model_results
    apply_death_increase_filter,  \* argument of calculate_model_results
    hospitals,                    \* roster read at the start of the run
    idx,                          \* number of roster entries processed
    current_month_live_data,      \* live-aggregate map of the run
    expected_death_pct_dict,      \* expected-death-percentage map of the run
    results,                      \* list of result dicts
    iter,                         \* locals of the last loop iteration
    fn_in,                        \* arguments of a helper call or of the last script run
    fn_out,                       \* value the helper returned, outcome of daily_update
    hospital_statistics,          \* rows of table hospital_statistics
    daily_mortality,              \* rows of table daily_mortality
    checked_month,                \* the month of the database check and the live query
    other,                        \* a second evaluation run, as a record of its locals
    sync,                         \* the locals of a sync_month call
    warehouse,                    \* the current-month aggregate of the raw facts
    insert_log                    \* the insert_monthly_data calls of the callers under study

vars == <<store, today, live_fetch, expected_fetch, error_log, pc, model_id, apply_death_increase_filter,
          hospitals, idx, current_month_live_data, expected_death_pct_dict,
          results, iter, fn_in, fn_out,
          sync, warehouse, insert_log, hospital_statistics, daily_mortality, checked_month, other>>

-----------------------------------------------------------------------------
(* Bounds of the model *)

MaxDeaths == 3          \* deaths of a row range over 0..MaxDeaths
MaxEvalMonth == 2       \* the evaluation month ranges over January..MaxEvalMonth
HistSlots == 3          \* a hospital has rows among the last HistSlots months
MaxRows == 4            \* longest history passed to a helper called on its own
MaxLookbackArg == 3     \* largest lookback width passed to such a helper
MaxSeriesRows == 2      \* longest history passed to get_last_6_months_mortality on its own
TaxonomySlots == 8      \* months of history of the hospital all 13 models are compared on

-----------------------------------------------------------------------------
(* Generic helpers *)

Min(a, b) == IF a < b THEN a ELSE b

Range(s) == {s[i] : i \in 1..Len(s)}

\* (year, month) lexicographic order, as sort_values(['year', 'month']) uses
PeriodLess(y1, m1, y2, m2) == y1 < y2 \/ (y1 = y2 /\ m1 < m2)

\* f"{year}-{month:02d}"
FormatPeriod(year, month) ==
    ToString(year) \o "-" \o (IF month < 10 THEN "0" ELSE "") \o ToString(month)

\* a step back that forgets the year at the turn of the year
PrevPeriodSameYear(year, month) ==
    IF month - 1 < 1 THEN <<year, 12>> ELSE <<year, month - 1>>

\* month -= 1; if month < 1: month = 12; year -= 1
PrevPeriod(year, month) ==
    IF month - 1 < 1 THEN <<year - 1, 12>> ELSE <<year, month - 1>>

-----------------------------------------------------------------------------
(* DataFrame helpers *)

\* df[(df['year'] == year) & (df['month'] == month)]
RowsOfPeriod(df, year, month) ==
    SelectSeq(df, LAMBDA r : r.year = year /\ r.month = month)

\* one insertion step of a stable descending sort on (year, month)
InsertDesc(row, s) ==
    LET k == Cardinality({i \in 1..Len(s) :
                 ~PeriodLess(s[i].year, s[i].month, row.year, row.month)})
    IN  SubSeq(s, 1, k) \o <<row>> \o SubSeq(s, k + 1, Len(s))

\* an ascending sort in place of the descending one
SortAscending(df) ==
    LET RECURSIVE Asc(_)
        Asc(n) == IF n = 0 THEN <<>>
                  ELSE LET s == Asc(n - 1)
                           k == Cardinality({i \in 1..Len(s) :
                                    ~PeriodLess(df[n].year, df[n].month, s[i].year, s[i].month)})
                       IN  SubSeq(s, 1, k) \o <<df[n]>> \o SubSeq(s, k + 1, Len(s))
    IN  Asc(Len(df))

RECURSIVE SortDescUpTo(_, _)
SortDescUpTo(df, n) ==
    IF n = 0 THEN <<>> ELSE InsertDesc(df[n], SortDescUpTo(df, n - 1))

\* df.sort_values(['year', 'month'], ascending=False)
SortDesc(df) == SortDescUpTo(df, Len(df))

RECURSIVE UniquePeriodsUpTo(_, _)
UniquePeriodsUpTo(df, n) ==
    IF n = 0 THEN <<>>
    ELSE LET u == UniquePeriodsUpTo(df, n - 1)
             p == <<df[n].year, df[n].month>>
         IN  IF p \in Range(u) THEN u ELSE Append(u, p)

\* df[['year', 'month']].drop_duplicates(): first occurrences, in order
UniquePeriods(df) == UniquePeriodsUpTo(df, Len(df))

-----------------------------------------------------------------------------
(* Pure helpers of models.py *)

\* a lookback that forgets to remove the excluded period
RecentMonthsNoExclusion(monthly_data, months, exclude) ==
    LET df == SortDesc(monthly_data)
        all_periods == UniquePeriods(df)
        period_set == Range(SubSeq(all_periods, 1, Min(months, Len(all_periods))))
    IN  SelectSeq(df, LAMBDA r : <<r.year, r.month>> \in period_set)

\* exclude is <<>> (exclude_year or exclude_month is None) or <<year, month>>
get_recent_months_data(monthly_data, months, exclude) ==
    IF Len(monthly_data) = 0 THEN monthly_data
    ELSE
      LET df1 == IF exclude # <<>>
                 THEN SelectSeq(monthly_data, LAMBDA r :
                          ~(r.year = exclude[1] /\ r.month = exclude[2]))
                 ELSE monthly_data
      IN  IF Len(df1) = 0 THEN <<>>
          ELSE
            LET df == SortDesc(df1)
                all_periods == UniquePeriods(df)
                unique_periods == SubSeq(all_periods, 1, Min(months, Len(all_periods)))
            IN  IF Len(unique_periods) = 0 THEN <<>>
                ELSE LET period_set == Range(unique_periods)
                     IN  SelectSeq(df, LAMBDA r : <<r.year, r.month>> \in period_set)

\* Optional[int]: <<>> when the previous month has no row
get_previous_month_deaths(all_data, current_year, current_month) ==
    LET prev == PrevPeriod(current_year, current_month)
        prev_month_data == RowsOfPeriod(all_data, prev[1], prev[2])
    IN  IF Len(prev_month_data) > 0 THEN <<prev_month_data[1].deaths>> ELSE <<>>

SeriesLength == 6

RECURSIVE MonthsList(_, _, _)
MonthsList(year, month, n) ==
    IF n = 0 THEN <<>>
    ELSE LET p == PrevPeriod(year, month)
         IN  <<<<year, month>>>> \o MonthsList(p[1], p[2], n - 1)

\* the series without the final reversal: newest month first
Last6NewestFirst(monthly_data, current_year, current_month) ==
    LET months_list == MonthsList(current_year, current_month, SeriesLength)
        Rate(p) == LET rows == RowsOfPeriod(monthly_data, p[1], p[2])
                   IN  IF Len(rows) > 0 THEN rows[Len(rows)].mortality_rate ELSE 0
    IN  [i \in 1..SeriesLength |->
            [period |-> FormatPeriod(months_list[i][1], months_list[i][2]),
             mortality_rate |-> Rate(months_list[i])]]

get_last_6_months_mortality(monthly_data, current_year, current_month) ==
    LET months_list == MonthsList(current_year, current_month, SeriesLength)
        \* data_dict[key]: the last row of the period wins
        Rate(p) == LET rows == RowsOfPeriod(monthly_data, p[1], p[2])
                   IN  IF Len(rows) > 0 THEN rows[Len(rows)].mortality_rate ELSE 0
    IN  [i \in 1..SeriesLength |->
            LET p == months_list[SeriesLength + 1 - i]
            IN  [period |-> FormatPeriod(p[1], p[2]), mortality_rate |-> Rate(p)]]

\* df['smr'] = df['mortality_rate'] / expected_pct, or None
\* an SMR column that keeps the mortality rates as they are
SmrUndivided(monthly_data, expected_pct) ==
    [i \in 1..Len(monthly_data) |->
        IF expected_pct # 0 /\ expected_pct > 0
        THEN <<[num |-> monthly_data[i].mortality_rate, den |-> 1]>>
        ELSE <<>>]

calculate_smr(monthly_data, expected_pct) ==
    [i \in 1..Len(monthly_data) |->
        IF expected_pct # 0 /\ expected_pct > 0
        THEN <<[num |-> monthly_data[i].mortality_rate, den |-> expected_pct]>>
        ELSE <<>>]

-----------------------------------------------------------------------------
(* Exact arithmetic for values and baselines *)

Rat(n, d) == [num |-> n, den |-> d]

\* a > b on quotients
RatGT(a, b) == a.num * b.den > b.num * a.den

RECURSIVE SumNum(_, _)
SumNum(col, n) == IF n = 0 THEN 0 ELSE col[n].num + SumNum(col, n - 1)

RECURSIVE SumSq(_, _)
SumSq(col, n) == IF n = 0 THEN 0 ELSE col[n].num * col[n].num + SumSq(col, n - 1)

\* the smallest value of the column in place of the largest
ColumnMin(col) ==
    LET m == CHOOSE x \in Range(col) : \A y \in Range(col) : ~RatGT(x, y)
    IN  [num |-> m.num, den |-> m.den, vnum |-> 0, vden |-> 1]

\* float(col.max()): the baseline num/den + sqrt(0)
ColumnMax(col) ==
    LET m == CHOOSE x \in Range(col) : \A y \in Range(col) : ~RatGT(y, x)
    IN  [num |-> m.num, den |-> m.den, vnum |-> 0, vden |-> 1]

\* mean + 1 SD without the pd.isna guard: the deviation of a single value stays
\* NaN (0/0 here), and no comparison with the baseline is true
ColumnAvg1SDUnguarded(col) ==
    LET n == Len(col)
        d == col[1].den
        s == SumNum(col, n)
        q == SumSq(col, n)
    IN  [num  |-> s,
         den  |-> n * d,
         vnum |-> IF n > 1 THEN n * q - s * s ELSE 0,
         vden |-> IF n > 1 THEN n * (n - 1) * d * d ELSE 0]

\* col.mean() + (1 * col.std()), std() the sample standard deviation (ddof = 1),
\* NaN for a single value and then replaced by 0.0 (pd.isna).  All quotients of a
\* column share their denominator.
ColumnAvg1SD(col) ==
    LET n == Len(col)
        d == col[1].den
        s == SumNum(col, n)
        q == SumSq(col, n)
    IN  [num  |-> s,
         den  |-> n * d,
         vnum |-> IF n > 1 THEN n * q - s * s ELSE 0,
         vden |-> IF n > 1 THEN n * (n - 1) * d * d ELSE 1]

\* a comparison that also fires on equality
ThresholdReached(threshold_value, threshold) ==
    LET dnum == threshold_value.num * threshold.den - threshold.num * threshold_value.den
        dden == threshold_value.den * threshold.den
    IN  /\ dnum >= 0
        /\ dnum * dnum * threshold.vden >= threshold.vnum * dden * dden

\* threshold_value > threshold
ThresholdCrossed(threshold_value, threshold) ==
    LET dnum == threshold_value.num * threshold.den - threshold.num * threshold_value.den
        dden == threshold_value.den * threshold.den
    IN  /\ dnum > 0
        /\ dnum * dnum * threshold.vden > threshold.vnum * dden * dden

-----------------------------------------------------------------------------
(* Model descriptors (calculate_model_results, lines 219-232) *)

ModelName(n) == "model" \o ToString(n)

ModelIds == {ModelName(n) : n \in 1..13}

\* ids that are not among the 13: numbers outside 1-13, a suffix that is not a
\* number, and a string without the prefix
UnknownIds == {"model0", "model14", "modelX", "dashboard"}

\* the ids whose suffix int() accepts
NumberedIds == {ModelName(n) : n \in 0..14}

\* model_id.startswith('model')
startswith_model(mid) == mid \in NumberedIds \cup {"modelX"}

\* int(model_id.replace('model', ''))
ModelNumber(mid) == CHOOSE n \in 0..14 : ModelName(n) = mid

\* a lookback of 6 periods whatever the model
LookbackAlwaysSix(mid) == 6

months_lookback(mid) ==
    IF mid \in {"model1", "model3", "model5", "model7", "model9", "model11"}
    THEN 3 ELSE 6

is_increasing_trend(mid) == mid = "model13"

\* int() raises ValueError on a suffix that is not a number (line 226); the and
\* chain reaches it when the id is not model13 and has the prefix
DescriptorsRaise(mid) ==
    ~is_increasing_trend(mid) /\ startswith_model(mid) /\ mid \notin NumberedIds

is_deaths(mid) ==
    ~is_increasing_trend(mid) /\ startswith_model(mid) /\ ModelNumber(mid) <= 4

is_smr(mid) ==
    /\ ~is_increasing_trend(mid)
    /\ startswith_model(mid)
    /\ 5 <= ModelNumber(mid) /\ ModelNumber(mid) <= 8

is_percentage(mid) ==
    ~is_increasing_trend(mid) /\ startswith_model(mid) /\ ModelNumber(mid) >= 9

use_highest(mid) ==
    mid \in {"model1", "model2", "model5", "model6", "model9", "model10"}

use_avg_1sd(mid) ==
    mid \in {"model3", "model4", "model7", "model8", "model11", "model12"}

-----------------------------------------------------------------------------
(* One iteration of the per-hospital loop (calculate_model_results, 285-568) *)

\* a resolver that never consults the live cache
ResolveCurrentNoLive(all_data, hospital, live, current_year, current_month) ==
    LET current_month_data == RowsOfPeriod(all_data, current_year, current_month)
    IN  IF Len(current_month_data) = 0
        THEN [source |-> "zero", current_deaths |-> 0, current_mortality_rate |-> 0]
        ELSE [source |-> "db",
              current_deaths |-> current_month_data[1].deaths,
              current_mortality_rate |-> current_month_data[1].mortality_rate]

\* a resolver that falls back to the previous month's row when the current month
\* has neither a row nor a live entry
ResolveCurrentFallback(all_data, hospital, live, current_year, current_month) ==
    LET current_month_data == RowsOfPeriod(all_data, current_year, current_month)
        prev == PrevPeriod(current_year, current_month)
        prev_month_data == RowsOfPeriod(all_data, prev[1], prev[2])
    IN  IF Len(current_month_data) > 0
        THEN [source |-> "db",
              current_deaths |-> current_month_data[1].deaths,
              current_mortality_rate |-> current_month_data[1].mortality_rate]
        ELSE IF hospital \in DOMAIN live
        THEN [source |-> "live",
              current_deaths |-> live[hospital].deaths,
              current_mortality_rate |-> live[hospital].mortality_rate]
        ELSE IF Len(prev_month_data) > 0
        THEN [source |-> "zero",
              current_deaths |-> prev_month_data[1].deaths,
              current_mortality_rate |-> prev_month_data[1].mortality_rate]
        ELSE [source |-> "zero", current_deaths |-> 0, current_mortality_rate |-> 0]

\* Period Resolver: the database row, else the live cache, else zero
ResolveCurrent(all_data, hospital, live, current_year, current_month) ==
    LET current_month_data == RowsOfPeriod(all_data, current_year, current_month)
    IN  IF Len(current_month_data) = 0
        THEN IF hospital \in DOMAIN live
             THEN [source |-> "live",
                   current_deaths |-> live[hospital].deaths,
                   current_mortality_rate |-> live[hospital].mortality_rate]
             ELSE [source |-> "zero",
                   current_deaths |-> 0,
                   current_mortality_rate |-> 0]
        ELSE [source |-> "db",
              current_deaths |-> current_month_data[1].deaths,
              current_mortality_rate |-> current_month_data[1].mortality_rate]

\* nested helper of model 13
get_mortality_for_month(all_data, hospital, live, current_year, current_month, year, month) ==
    LET month_data == RowsOfPeriod(all_data, year, month)
    IN  IF year = current_year /\ month = current_month
        THEN IF Len(month_data) > 0 THEN month_data[1].mortality_rate
             ELSE IF hospital \in DOMAIN live THEN live[hospital].mortality_rate
             ELSE 0
        ELSE IF Len(month_data) > 0 THEN month_data[1].mortality_rate
             ELSE 0

\* a trend test that accepts equal adjacent rates
TrendNotDecreasing(rate_current, rate_prev, rate_prev_prev) ==
    rate_current >= rate_prev /\ rate_prev >= rate_prev_prev

\* rate_current > rate_prev > rate_prev_prev
TrendIncreasing(rate_current, rate_prev, rate_prev_prev) ==
    rate_current > rate_prev /\ rate_prev > rate_prev_prev

\* a comparison that keeps an increase of exactly 2
IncreaseBelowTwo(increase) == increase < 2

\* the exclusion rule's comparison: increase <= 2
IncreaseTooSmall(increase) == increase <= 2

\* an exclusion rule applied whatever the caller asked for
ExclusionRuleUnconditional(filter, prev_month_deaths, current_deaths) ==
    /\ prev_month_deaths # <<>>
    /\ IncreaseTooSmall(current_deaths - prev_month_deaths[1])

\* EXCLUSION RULE: TRUE when the hospital is skipped (continue)
ExclusionRule(filter, prev_month_deaths, current_deaths) ==
    /\ filter
    /\ prev_month_deaths # <<>>
    /\ IncreaseTooSmall(current_deaths - prev_month_deaths[1])

\* an exclusion of the previous month in every case
ExcludePrevious(has_current_row, current_year, current_month) ==
    PrevPeriod(current_year, current_month)

\* the period passed to get_recent_months_data (lines 428-442)
ExcludePeriod(has_current_row, current_year, current_month) ==
    IF has_current_row
    THEN <<current_year, current_month>>
    ELSE PrevPeriod(current_year, current_month)

DeathsColumn(df) == [i \in 1..Len(df) |-> Rat(df[i].deaths, 1)]

RateColumn(df) == [i \in 1..Len(df) |-> Rat(df[i].mortality_rate, 1)]

\* recent_smr['smr'].dropna()
DropNa(col) ==
    LET kept == SelectSeq(col, LAMBDA x : x # <<>>)
    IN  [i \in 1..Len(kept) |-> kept[i][1]]

NoIter ==
    [hospital |-> "", current_year |-> 0, current_month |-> 0, source |-> "",
     current_deaths |-> 0, current_mortality_rate |-> 0, rates |-> <<>>,
     exclude |-> <<>>, recent_data |-> <<>>, threshold |-> <<>>,
     threshold_value |-> <<>>, crossed |-> FALSE, outcome |-> "",
     result |-> <<>>]

\* the result dict of models 1-12 (lines 546-566); smr is <<>> when the key is
\* absent, trend_info likewise
ThresholdResult(hospital, all_data, current_year, current_month, cur, threshold, smr) ==
    LET last6 == get_last_6_months_mortality(all_data, current_year, current_month)
    IN  [hospital_name |-> hospital,
         current_period |-> FormatPeriod(current_year, current_month),
         deaths |-> cur.current_deaths,
         mortality_rate |-> cur.current_mortality_rate,
         threshold |-> threshold,
         smr |-> smr,
         status |-> "Alert",
         last_6_months_mortality |->
             [last6 EXCEPT ![Len(last6)].mortality_rate = cur.current_mortality_rate],
         trend_info |-> <<>>]

\* the result dict of model 13 (lines 401-421)
TrendResult(hospital, all_data, current_year, current_month, cur, rate_current, rate_prev, rate_prev_prev) ==
    LET prev == PrevPeriod(current_year, current_month)
        prev_prev == PrevPeriod(prev[1], prev[2])
        current_period == FormatPeriod(current_year, current_month)
    IN  [hospital_name |-> hospital,
         current_period |-> current_period,
         deaths |-> cur.current_deaths,
         mortality_rate |-> cur.current_mortality_rate,
         threshold |-> [num |-> rate_prev_prev, den |-> 1, vnum |-> 0, vden |-> 1],
         smr |-> <<>>,
         status |-> "Alert",
         last_6_months_mortality |->
             get_last_6_months_mortality(all_data, current_year, current_month),
         trend_info |-> <<[month1 |-> FormatPeriod(prev_prev[1], prev_prev[2]),
                           month2 |-> FormatPeriod(prev[1], prev[2]),
                           month3 |-> current_period,
                           rate1 |-> rate_prev_prev,
                           rate2 |-> rate_prev,
                           rate3 |-> rate_current]>>]

\* lines 425-568: baseline, threshold, comparison, exclusion rule, result
\* a lookup that falls back to a default percentage
ExpectedPctOrDefault(expected, hospital) ==
    IF hospital \in DOMAIN expected /\ expected[hospital] > 0
    THEN <<expected[hospital]>> ELSE <<2>>

\* expected_death_pct_dict.get(hospital): <<>> for None
ExpectedPctOf(expected, hospital) ==
    IF hospital \in DOMAIN expected THEN <<expected[hospital]>> ELSE <<>>

ThresholdPart(base, mid, filter, hospital, all_data, expected, current_year, current_month, cur) ==
    LET all_data_sorted == SortDesc(all_data)
        current_month_data == RowsOfPeriod(all_data, current_year, current_month)
        exclude == ExcludePeriod(Len(current_month_data) > 0, current_year, current_month)
        recent_data == get_recent_months_data(all_data_sorted, months_lookback(mid), exclude)
        it == [base EXCEPT !.exclude = exclude, !.recent_data = recent_data]
        expected_pct == ExpectedPctOf(expected, hospital)
        pct_usable == expected_pct # <<>> /\ expected_pct[1] # 0 /\ expected_pct[1] > 0
    IN  IF Len(recent_data) = 0 THEN [it EXCEPT !.outcome = "no_baseline"]
        ELSE IF is_smr(mid) /\ ~pct_usable THEN [it EXCEPT !.outcome = "no_expected_pct"]
        ELSE IF ~(is_deaths(mid) \/ is_smr(mid) \/ is_percentage(mid))
             THEN [it EXCEPT !.outcome = "no_alert"]
        ELSE IF ~(use_highest(mid) \/ use_avg_1sd(mid))
             THEN [it EXCEPT !.outcome = "no_threshold"]
        ELSE
          LET smr_value == IF is_smr(mid)
                           THEN <<Rat(cur.current_mortality_rate, expected_pct[1])>>
                           ELSE <<>>
              column == IF is_deaths(mid) THEN DeathsColumn(recent_data)
                        ELSE IF is_smr(mid)
                             THEN DropNa(calculate_smr(recent_data, expected_pct[1]))
                             ELSE RateColumn(recent_data)
              threshold == IF use_highest(mid) THEN ColumnMax(column)
                           ELSE ColumnAvg1SD(column)
              threshold_value == IF is_deaths(mid) THEN Rat(cur.current_deaths, 1)
                                 ELSE IF is_smr(mid) THEN smr_value[1]
                                 ELSE Rat(cur.current_mortality_rate, 1)
              crossed == ThresholdCrossed(threshold_value, threshold)
              prev_month_deaths ==
                  get_previous_month_deaths(all_data, current_year, current_month)
              it2 == [it EXCEPT !.threshold = <<threshold>>,
                                !.threshold_value = <<threshold_value>>,
                                !.crossed = crossed]
          IN  IF ~crossed THEN [it2 EXCEPT !.outcome = "no_alert"]
              ELSE IF ExclusionRule(filter, prev_month_deaths, cur.current_deaths)
                   THEN [it2 EXCEPT !.outcome = "excluded"]
              ELSE [it2 EXCEPT !.outcome = "alert",
                       !.result = <<ThresholdResult(hospital, all_data, current_year,
                                       current_month, cur, threshold, smr_value)>>]

\* the body of the for loop for one hospital
HospitalIteration(mid, filter, hospital, all_data, live, expected, current_year, current_month) ==
    IF Len(all_data) = 0
    THEN [NoIter EXCEPT !.hospital = hospital, !.outcome = "no_data"]
    ELSE
      LET cur == ResolveCurrent(all_data, hospital, live, current_year, current_month)
          base == [NoIter EXCEPT !.hospital = hospital,
                                 !.current_year = current_year,
                                 !.current_month = current_month,
                                 !.source = cur.source,
                                 !.current_deaths = cur.current_deaths,
                                 !.current_mortality_rate = cur.current_mortality_rate]
      IN  IF is_increasing_trend(mid)
          THEN
            LET prev == PrevPeriod(current_year, current_month)
                prev_prev == PrevPeriod(prev[1], prev[2])
                rate_current == get_mortality_for_month(all_data, hospital, live,
                                    current_year, current_month, current_year, current_month)
                rate_prev == get_mortality_for_month(all_data, hospital, live,
                                    current_year, current_month, prev[1], prev[2])
                rate_prev_prev == get_mortality_for_month(all_data, hospital, live,
                                    current_year, current_month, prev_prev[1], prev_prev[2])
                prev_month_deaths ==
                    get_previous_month_deaths(all_data, current_year, current_month)
                it == [base EXCEPT !.rates = <<rate_current, rate_prev, rate_prev_prev>>]
            IN  IF TrendIncreasing(rate_current, rate_prev, rate_prev_prev)
                THEN IF ExclusionRule(filter, prev_month_deaths, cur.current_deaths)
                     THEN [it EXCEPT !.crossed = TRUE, !.outcome = "excluded"]
                     ELSE [it EXCEPT !.crossed = TRUE, !.outcome = "alert",
                              !.result = <<TrendResult(hospital, all_data, current_year,
                                              current_month, cur, rate_current,
                                              rate_prev, rate_prev_prev)>>]
                ELSE ThresholdPart(it, mid, filter, hospital, all_data, expected,
                                   current_year, current_month, cur)
          ELSE ThresholdPart(base, mid, filter, hospital, all_data, expected,
                             current_year, current_month, cur)

-----------------------------------------------------------------------------
(* The Historical Store (database.py) *)

\* ORDER BY hospital_name
HospitalOrder == <<"h1", "h2", "h3">>

HospitalIndex(h) == CHOOSE i \in 1..Len(HospitalOrder) : HospitalOrder[i] = h

RowLess(a, b) ==
    \/ HospitalIndex(a.hospital_name) < HospitalIndex(b.hospital_name)
    \/ /\ a.hospital_name = b.hospital_name
       /\ PeriodLess(a.year, a.month, b.year, b.month)

RECURSIVE OrderedRows(_)
OrderedRows(rows) ==
    IF rows = {} THEN <<>>
    ELSE LET first == CHOOSE r \in rows : \A o \in rows \ {r} : RowLess(r, o)
         IN  <<first>> \o OrderedRows(rows \ {first})

\* MortalityDatabase.get_monthly_data; hospital_name, start_date and end_date are
\* <<>> when not given, else <<name>> and <<year, month>>
get_monthly_data(table, hospital_name, start_date, end_date) ==
    OrderedRows({r \in table :
        /\ hospital_name # <<>> => r.hospital_name = hospital_name[1]
        /\ start_date # <<>> =>
              (r.year > start_date[1]
                 \/ (r.year = start_date[1] /\ r.month >= start_date[2]))
        /\ end_date # <<>> =>
              (r.year < end_date[1]
                 \/ (r.year = end_date[1] /\ r.month <= end_date[2]))})

\* MortalityDatabase.get_all_hospitals
get_all_hospitals(table) ==
    SelectSeq(HospitalOrder, LAMBDA h : \E r \in table : r.hospital_name = h)

-----------------------------------------------------------------------------
(* Ranking (lines 574-584) *)

SortKey(mid, x) ==
    IF is_increasing_trend(mid) THEN Rat(x.mortality_rate, 1)
    ELSE IF is_smr(mid) THEN (IF x.smr # <<>> THEN x.smr[1] ELSE Rat(0, 1))
    ELSE IF is_percentage(mid) THEN Rat(x.mortality_rate, 1)
    ELSE Rat(x.deaths, 1)

\* an insertion step that puts a result before the results of equal key
InsertBeforeEqual(mid, x, s) ==
    LET k == Cardinality({i \in 1..Len(s) : RatGT(SortKey(mid, s[i]), SortKey(mid, x))})
    IN  SubSeq(s, 1, k) \o <<x>> \o SubSeq(s, k + 1, Len(s))

\* one insertion step of a stable descending sort on the model's key
InsertByKey(mid, x, s) ==
    LET k == Cardinality({i \in 1..Len(s) : ~RatGT(SortKey(mid, x), SortKey(mid, s[i]))})
    IN  SubSeq(s, 1, k) \o <<x>> \o SubSeq(s, k + 1, Len(s))

RECURSIVE SortResultsUpTo(_, _, _)
SortResultsUpTo(mid, list, n) ==
    IF n = 0 THEN <<>>
    ELSE InsertByKey(mid, list[n], SortResultsUpTo(mid, list, n - 1))

\* results.sort(key=..., reverse=True)
SortResults(mid, list) == SortResultsUpTo(mid, list, Len(list))

-----------------------------------------------------------------------------
(* Inputs *)

\* (df['deaths'] / df['total_patients'] * 100).round(2), in hundredths of a
\* percent, rounding half to even
MortalityRate(deaths, total_patients) ==
    LET n == 10000 * deaths
        q == n \div total_patients
        r == n % total_patients
    IN  IF 2 * r > total_patients \/ (2 * r = total_patients /\ q % 2 = 1)
        THEN q + 1 ELSE q

MonthlyValues(deaths, total_patients) ==
    [total_patients |-> total_patients, deaths |-> deaths,
     mortality_rate |-> MortalityRate(deaths, total_patients)]

\* values of a monthly row: 0..MaxDeaths deaths among 10000 patients (rates of
\* 0.00 to 0.0MaxDeaths percent), and MaxDeaths deaths among 30000 patients
\* (many deaths, low rate)
RowVals ==
    {MonthlyValues(d, 10000) : d \in 0..MaxDeaths} \cup {MonthlyValues(MaxDeaths, 30000)}

\* the narrower values of the rows of a roster of several hospitals
RosterRowVals == {MonthlyValues(0, 10000), MonthlyValues(MaxDeaths, 10000)}

\* the values of the rows older than the month before the evaluation month
OlderRowVals == {MonthlyValues(0, 10000), MonthlyValues(MaxDeaths, 30000)}

\* expected death percentages, in hundredths of a percent
ExpectedPcts == {-1, 0, 2}

EvalPeriods == {<<2025, m>> : m \in 1..MaxEvalMonth}

\* the period k months before period p
PeriodBack(p, k) ==
    LET i == p[1] * 12 + (p[2] - 1) - k
    IN  <<i \div 12, (i % 12) + 1>>

MonthlyRow(h, p, v) ==
    [hospital_name |-> h, year |-> p[1], month |-> p[2],
     total_patients |-> v.total_patients, deaths |-> v.deaths,
     mortality_rate |-> v.mortality_rate]

\* the tables in which each hospital of hs has at most one row for each of the
\* last slots months up to period p: values from vals for the evaluation month and
\* the month before it, from older for the months before these
Tables(hs, p, slots, vals, older) ==
    LET cells == hs \X (0..(slots - 1))
        opt(c) == {<<>>} \cup {<<v>> : v \in (IF c[2] <= 1 THEN vals ELSE older)}
        fills == {f \in [cells -> {<<>>} \cup {<<v>> : v \in vals \cup older}] :
                     \A c \in cells : f[c] \in opt(c)}
    IN  {{MonthlyRow(c[1], PeriodBack(p, c[2]), f[c][1]) : c \in {x \in cells : f[x] # <<>>}} :
            f \in fills}

\* the maps a live aggregate query can return for the hospitals hs
LiveMaps(hs, vals) ==
    UNION {[sub -> {[deaths |-> v.deaths, mortality_rate |-> v.mortality_rate,
                     total_patients |-> v.total_patients] : v \in vals}] :
              sub \in SUBSET hs}

ExpectedMaps(hs) == UNION {[sub -> ExpectedPcts] : sub \in SUBSET hs}

\* what a live aggregate row can hold (a hospital with current-month activity)
LiveVals == {MonthlyValues(1, 10000), MonthlyValues(MaxDeaths, 10000)}

-----------------------------------------------------------------------------
(* Evaluation run: calculate_model_results(model_id, apply_death_increase_filter) *)

\* the locals of an evaluation run that has not started
NoRun ==
    [pc |-> "idle", model_id |-> "", apply_death_increase_filter |-> FALSE,
     hospitals |-> <<>>, idx |-> 0, current_month_live_data |-> <<>>,
     expected_death_pct_dict |-> <<>>, results |-> <<>>]

\* the locals of sync_month before it is called
NoSync == [pc |-> "idle", year |-> 0, month |-> 0, df |-> <<>>,
           inserted_count |-> 0, updated_count |-> 0]

\* nothing but the evaluation run under study is active
Quiescent ==
    /\ hospital_statistics = {}
    /\ daily_mortality = {}
    /\ checked_month = <<>>
    /\ other = NoRun
    /\ sync = NoSync
    /\ warehouse = <<>>
    /\ insert_log = <<>>

\* the run under study has not started
RunNotStarted ==
    /\ pc = "idle"
    /\ model_id = ""
    /\ apply_death_increase_filter = FALSE
    /\ hospitals = <<>>
    /\ idx = 0
    /\ live_fetch = "skipped"
    /\ expected_fetch = "skipped"
    /\ error_log = <<>>
    /\ current_month_live_data = <<>>
    /\ expected_death_pct_dict = <<>>
    /\ results = <<>>
    /\ iter = NoIter
    /\ fn_in = <<>>
    /\ fn_out = <<>>

RunIdle ==
    /\ RunNotStarted
    /\ Quiescent

\* lines 210-278: roster, SMR prefetch, database check, live prefetch
StartRunWith(mid, filter, live_vals) ==
    /\ pc = "idle"
    /\ hospitals' = get_all_hospitals(store)
    /\ model_id' = mid
    /\ apply_death_increase_filter' = filter
    /\ IF DescriptorsRaise(mid)
       THEN /\ pc' = "raised"
            /\ UNCHANGED <<expected_death_pct_dict, expected_fetch,
                           current_month_live_data, live_fetch, idx, results>>
       ELSE /\ LET roster == get_all_hospitals(store)
                   current_month_data_check == get_monthly_data(store, <<>>, today, today)
                   has_current_month_in_db == Len(current_month_data_check) > 0
               IN  /\ IF is_smr(mid)
                      THEN \/ \E fetched \in ExpectedMaps(Range(roster)) :
                                  /\ expected_death_pct_dict' = fetched
                                  /\ expected_fetch' = "ok"
                           \/ /\ expected_death_pct_dict' = <<>>
                              /\ expected_fetch' = "failed"
                      ELSE /\ expected_death_pct_dict' = <<>>
                           /\ expected_fetch' = "skipped"
                   /\ IF ~has_current_month_in_db
                      THEN \/ \E live_df \in LiveMaps(Range(roster), live_vals) :
                                  /\ current_month_live_data' = live_df
                                  /\ live_fetch' = "ok"
                           \/ /\ current_month_live_data' = <<>>
                              /\ live_fetch' = "failed"
                      ELSE /\ current_month_live_data' = <<>>
                           /\ live_fetch' = "skipped"
            /\ idx' = 0
            /\ results' = <<>>
            /\ pc' = "loop"
    /\ checked_month' = today
    /\ UNCHANGED <<sync, warehouse, insert_log, hospital_statistics, daily_mortality, other, store, today, error_log, iter, fn_in, fn_out>>

\* a run whose live aggregate rows, if fetched, hold values of LiveVals
StartRun(mid, filter) == StartRunWith(mid, filter, LiveVals)

\* lines 280-572: one hospital of the roster
ProcessHospital ==
    /\ pc = "loop"
    /\ idx < Len(hospitals)
    /\ LET hospital == hospitals[idx + 1]
           all_data == get_monthly_data(store, <<hospital>>, <<>>, <<>>)
           it == HospitalIteration(model_id, apply_death_increase_filter, hospital,
                     all_data, current_month_live_data, expected_death_pct_dict,
                     today[1], today[2])
       IN  /\ iter' = it
           /\ results' = results \o it.result
    /\ idx' = idx + 1
    /\ UNCHANGED <<sync, warehouse, insert_log, hospital_statistics, daily_mortality, checked_month, other, store, today, live_fetch, expected_fetch, error_log, pc, model_id, apply_death_increase_filter,
                   hospitals, current_month_live_data, expected_death_pct_dict,
                   fn_in, fn_out>>

\* an except branch that loses the results collected so far
ExceptDropResults(collected) == <<>>

\* lines 570-572: except Exception: print(...); continue
ExceptContinue(collected) == collected

\* lines 285-287 and 570-572: the store read of the iteration raises (the database
\* is locked or unreadable) and the except branch skips the hospital
HospitalRaises ==
    /\ pc = "loop"
    /\ idx < Len(hospitals)
    /\ iter' = [NoIter EXCEPT !.hospital = hospitals[idx + 1], !.outcome = "error"]
    /\ error_log' = Append(error_log, hospitals[idx + 1])
    /\ results' = ExceptContinue(results)
    /\ idx' = idx + 1
    /\ UNCHANGED <<sync, warehouse, insert_log, hospital_statistics, daily_mortality, checked_month, other, store, today, live_fetch, expected_fetch, pc, model_id,
                   apply_death_increase_filter, hospitals, current_month_live_data,
                   expected_death_pct_dict, fn_in, fn_out>>

\* lines 574-592: rank and return
FinishRun ==
    /\ pc = "loop"
    /\ idx = Len(hospitals)
    /\ results' = SortResults(model_id, results)
    /\ pc' = "done"
    /\ UNCHANGED <<sync, warehouse, insert_log, hospital_statistics, daily_mortality, checked_month, other, store, today, live_fetch, expected_fetch, error_log, model_id, apply_death_increase_filter,
                   hospitals, idx, current_month_live_data, expected_death_pct_dict,
                   iter, fn_in, fn_out>>

Next ==
    \/ \E mid \in ModelIds, filter \in BOOLEAN : StartRun(mid, filter)
    \/ ProcessHospital
    \/ FinishRun

\* the state before a helper is called on its own
HelperIdle ==
    /\ Quiescent
    /\ model_id = ""
    /\ apply_death_increase_filter = FALSE
    /\ hospitals = <<>>
    /\ idx = 0
    /\ live_fetch = "skipped"
    /\ expected_fetch = "skipped"
    /\ error_log = <<>>
    /\ current_month_live_data = <<>>
    /\ expected_death_pct_dict = <<>>
    /\ results = <<>>
    /\ iter = NoIter
    /\ store = {}
    /\ today = <<2025, 1>>

\* one hospital with a rich history
Init ==
    /\ today \in EvalPeriods
    /\ store \in Tables({"h1"}, today, HistSlots, RowVals, OlderRowVals)
    /\ RunIdle

Spec == Init /\ [][Next]_vars

\* two hospitals with rows for the evaluation month and the month before it only
InitRoster ==
    /\ today \in EvalPeriods
    /\ store \in Tables({"h1", "h2"}, today, 2, RosterRowVals, {})
    /\ RunIdle

SpecRoster == InitRoster /\ [][Next]_vars

\* runs requested with an id that is not one of the 13
NextUnknown ==
    \/ \E mid \in UnknownIds, filter \in BOOLEAN : StartRun(mid, filter)
    \/ ProcessHospital
    \/ FinishRun

SpecUnknown == Init /\ [][NextUnknown]_vars

\* values of the current-month rows of a roster that is ranked: few deaths, many
\* deaths, and many deaths at a low rate
RankRowVals ==
    {MonthlyValues(1, 10000), MonthlyValues(MaxDeaths, 10000), MonthlyValues(MaxDeaths, 30000)}

\* three hospitals, each with a previous month without deaths and possibly a row
\* for the evaluation month
RankTables(p) ==
    LET hs == {"h1", "h2", "h3"}
        prev == {MonthlyRow(h, PeriodBack(p, 1), MonthlyValues(0, 10000)) : h \in hs}
    IN  {prev \cup {MonthlyRow(h, p, f[h][1]) : h \in {x \in hs : f[x] # <<>>}} :
            f \in [hs -> {<<>>} \cup {<<v>> : v \in RankRowVals}]}

InitRank ==
    /\ today \in EvalPeriods
    /\ store \in RankTables(today)
    /\ RunIdle

SpecRank == InitRank /\ [][Next]_vars

\* hospital H: deaths of 1, 2, 2 and 5 from January to April 2025 (among 10000
\* patients a month), evaluated in May with 6 deaths, which are in the store or
\* come from the live aggregate
ScenarioDeaths == <<1, 2, 2, 5>>

ScenarioHistory ==
    {MonthlyRow("h1", <<2025, m>>, MonthlyValues(ScenarioDeaths[m], 10000)) : m \in 1..4}

ScenarioCurrent == MonthlyValues(6, 10000)

InitScenario ==
    /\ today = <<2025, 5>>
    /\ store \in {ScenarioHistory,
                  ScenarioHistory \cup {MonthlyRow("h1", <<2025, 5>>, ScenarioCurrent)}}
    /\ RunIdle

NextScenario ==
    \/ \E mid \in ModelIds, filter \in BOOLEAN : StartRunWith(mid, filter, {ScenarioCurrent})
    \/ ProcessHospital
    \/ FinishRun

SpecScenario == InitScenario /\ [][NextScenario]_vars

\* one hospital with a row for each of the last TaxonomySlots months: the
\* evaluation month and the three months before it hold no deaths, 2 deaths, or
\* MaxDeaths deaths at a low rate; the older months hold no deaths or 2 deaths
TaxonomyTables(p) ==
    LET slots == 0..(TaxonomySlots - 1)
        recent == {MonthlyValues(0, 10000), MonthlyValues(2, 10000),
                   MonthlyValues(MaxDeaths, 30000)}
        older == {MonthlyValues(0, 10000), MonthlyValues(2, 10000)}
        fills == {f \in [slots -> recent] : \A k \in slots : k > 3 => f[k] \in older}
    IN  {{MonthlyRow("h1", PeriodBack(p, k), f[k]) : k \in slots} : f \in fills}

InitTaxonomy ==
    /\ today = <<2025, 1>>
    /\ store \in TaxonomyTables(today)
    /\ RunIdle

SpecTaxonomy == InitTaxonomy /\ [][Next]_vars

\* runs during which store reads of the loop can fail
NextFaulty ==
    \/ Next
    \/ HospitalRaises

SpecFaulty == InitRoster /\ [][NextFaulty]_vars

-----------------------------------------------------------------------------
(* get_recent_months_data called on its own *)

HelperPeriods == {<<2024, 12>>, <<2025, 1>>, <<2025, 2>>}

HelperRows ==
    {[year |-> p[1], month |-> p[2], deaths |-> d] : p \in HelperPeriods, d \in {0, 1}}

Histories == UNION {[1..n -> HelperRows] : n \in 0..MaxRows}

CallRecent ==
    /\ pc = "call"
    /\ fn_out' = <<get_recent_months_data(fn_in.monthly_data, fn_in.months, fn_in.exclude)>>
    /\ pc' = "returned"
    /\ UNCHANGED <<sync, warehouse, insert_log, hospital_statistics, daily_mortality, checked_month, other, store, today, live_fetch, expected_fetch, error_log, model_id, apply_death_increase_filter,
                   hospitals, idx, current_month_live_data, expected_death_pct_dict,
                   results, iter, fn_in>>

InitRecent ==
    /\ pc = "call"
    /\ fn_in \in [monthly_data : Histories,
                  months : 0..MaxLookbackArg,
                  exclude : HelperPeriods \cup {<<>>}]
    /\ fn_out = <<>>
    /\ HelperIdle

SpecRecent == InitRecent /\ [][CallRecent]_vars

-----------------------------------------------------------------------------
(* Properties of an evaluation run *)

\* the last loop iteration evaluated a hospital that has rows
Evaluated == iter.hospital # "" /\ iter.outcome # "no_data"

HistoryOf(h) == {r \in store : r.hospital_name = h}

RowsAt(h, year, month) == {r \in HistoryOf(h) : r.year = year /\ r.month = month}

\* C1: the current figures of every evaluated hospital are those of its store row
\* for the evaluation period (today's year and month); without such a row those of
\* its live-aggregate entry; without either, 0 deaths and a rate of 0.0; an emitted
\* result carries these figures.
C1_ResolutionOrder ==
    Evaluated =>
        LET rows == RowsAt(iter.hospital, iter.current_year, iter.current_month)
            live == current_month_live_data
        IN  /\ <<iter.current_year, iter.current_month>> = today
            /\ rows # {} =>
                  \E r \in rows : /\ iter.current_deaths = r.deaths
                                  /\ iter.current_mortality_rate = r.mortality_rate
            /\ (rows = {} /\ iter.hospital \in DOMAIN live) =>
                  /\ iter.current_deaths = live[iter.hospital].deaths
                  /\ iter.current_mortality_rate = live[iter.hospital].mortality_rate
            /\ (rows = {} /\ iter.hospital \notin DOMAIN live) =>
                  /\ iter.current_deaths = 0
                  /\ iter.current_mortality_rate = 0
            /\ iter.result # <<>> =>
                  /\ iter.result[1].deaths = iter.current_deaths
                  /\ iter.result[1].mortality_rate = iter.current_mortality_rate

\* a hospital without a row for the evaluation month, but with older rows, was
\* resolved from a live entry with deaths, and alerted
C1_Witness ==
    /\ Evaluated
    /\ RowsAt(iter.hospital, iter.current_year, iter.current_month) = {}
    /\ iter.hospital \in DOMAIN current_month_live_data
    /\ iter.current_deaths > 0
    /\ iter.current_deaths = current_month_live_data[iter.hospital].deaths
    /\ iter.outcome = "alert"

\* the last iteration evaluated a hospital under one of the models 1-12
EvaluatedThreshold == Evaluated /\ ~is_increasing_trend(model_id)

\* the compared quantity of a pair (deaths, mortality rate) under the run's model
MetricOf(deaths, mortality_rate) ==
    IF is_deaths(model_id) THEN Rat(deaths, 1)
    ELSE IF is_smr(model_id)
         THEN Rat(mortality_rate, expected_death_pct_dict[iter.hospital])
         ELSE Rat(mortality_rate, 1)

CurrentValue == MetricOf(iter.current_deaths, iter.current_mortality_rate)

LookbackValues ==
    [i \in 1..Len(iter.recent_data) |->
        MetricOf(iter.recent_data[i].deaths, iter.recent_data[i].mortality_rate)]

\* the current value is strictly greater than the baseline over the lookback values:
\* greater than each of them (MAX), or greater than their mean plus one sample
\* standard deviation, the deviation of a single value being 0 (MEAN+1SD)
AboveBaseline ==
    LET col == LookbackValues
        n == Len(col)
        a == CurrentValue.num
        s == SumNum(col, n)
        q == SumSq(col, n)
    IN  IF use_highest(model_id)
        THEN \A i \in 1..n : RatGT(CurrentValue, col[i])
        ELSE /\ n * a - s > 0
             /\ n > 1 => (n - 1) * (n * a - s) * (n * a - s) > n * (n * q - s * s)

\* C2: under models 1-12 a hospital with a baseline alerts (before the exclusion
\* filter) exactly when its current value is strictly greater than the baseline; a
\* value equal to the baseline yields no result.
C2_StrictThreshold ==
    (EvaluatedThreshold /\ iter.threshold # <<>>) =>
        /\ iter.crossed = AboveBaseline
        /\ (iter.outcome \in {"alert", "excluded"}) = AboveBaseline
        /\ (iter.outcome = "no_alert") = ~AboveBaseline
        /\ ~AboveBaseline => iter.result = <<>>
        /\ ~apply_death_increase_filter => ((iter.result # <<>>) = AboveBaseline)

\* a positive current value equal to the maximum of the lookback values: no alert
C2_Witness ==
    /\ EvaluatedThreshold
    /\ iter.threshold # <<>>
    /\ use_highest(model_id)
    /\ CurrentValue.num > 0
    /\ \E i \in 1..Len(LookbackValues) :
           /\ ~RatGT(CurrentValue, LookbackValues[i])
           /\ ~RatGT(LookbackValues[i], CurrentValue)
    /\ \A i \in 1..Len(LookbackValues) : ~RatGT(LookbackValues[i], CurrentValue)
    /\ iter.outcome = "no_alert"
    /\ iter.result = <<>>

\* C3 (as claimed): under models 1-12 the lookback set of every hospital is the one
\* chosen after removing the evaluation period, and only that period, from its
\* history, however the current figures were resolved.
C3_ExcludesEvaluationPeriod ==
    EvaluatedThreshold =>
        iter.recent_data =
            get_recent_months_data(
                SortDesc(get_monthly_data(store, <<iter.hospital>>, <<>>, <<>>)),
                months_lookback(model_id),
                <<iter.current_year, iter.current_month>>)

\* no period of the hospital's history remains once the evaluation period (or the
\* period the run excluded) is removed
NoPeriodRemains(h, excluded) ==
    \A r \in HistoryOf(h) : <<r.year, r.month>> = excluded

HasResult(h) == \E i \in 1..Len(results) : results[i].hospital_name = h

\* C6: under models 1-12 a hospital whose history holds no period besides the
\* excluded one gets no baseline (not a baseline of 0) and no result, the run does
\* not fail: it goes on with the rest of the roster and ends with every hospital
\* of the roster processed.
C6_NoBaselineSkipped ==
    /\ (EvaluatedThreshold
          /\ (\/ NoPeriodRemains(iter.hospital, today)
              \/ NoPeriodRemains(iter.hospital, iter.exclude))) =>
            /\ iter.outcome = "no_baseline"
            /\ iter.threshold = <<>>
            /\ iter.result = <<>>
            /\ ~HasResult(iter.hospital)
            /\ pc \in {"loop", "done"}
    /\ pc = "loop" => idx <= Len(hospitals)
    /\ pc = "done" =>
            /\ idx = Len(hospitals)
            /\ ~is_increasing_trend(model_id) =>
                  \A h \in Range(hospitals) : NoPeriodRemains(h, today) => ~HasResult(h)

\* the first hospital has deaths in the evaluation month and no other row, the run
\* went on and returned an alert for the second hospital
C6_Witness ==
    /\ pc = "done"
    /\ is_deaths(model_id)
    /\ hospitals = <<"h1", "h2">>
    /\ NoPeriodRemains("h1", today)
    /\ \E r \in HistoryOf("h1") : r.deaths > 0
    /\ ~HasResult("h1")
    /\ HasResult("h2")

PreviousRows(h) ==
    LET p == PeriodBack(today, 1) IN RowsAt(h, p[1], p[2])

\* the previous month's deaths are in the store and the current deaths exceed them
\* by at most 2
SmallIncrease(h, current_deaths) ==
    /\ PreviousRows(h) # {}
    /\ \A r \in PreviousRows(h) : current_deaths - r.deaths <= 2

ResolvedRate(h, p) ==
    IF RowsAt(h, p[1], p[2]) # {}
    THEN (CHOOSE r \in RowsAt(h, p[1], p[2]) : TRUE).mortality_rate
    ELSE IF p = today /\ h \in DOMAIN current_month_live_data
         THEN current_month_live_data[h].mortality_rate
         ELSE 0

StrictlyRising(h) ==
    /\ ResolvedRate(h, today) > ResolvedRate(h, PeriodBack(today, 1))
    /\ ResolvedRate(h, PeriodBack(today, 1)) > ResolvedRate(h, PeriodBack(today, 2))

\* C9: under model 13 a hospital alerts (before the exclusion filter) exactly when
\* the rates of the evaluation month, the month before and the month before that
\* are strictly increasing; equal or decreasing neighbours never fire.
C9_TrendFires ==
    (Evaluated /\ is_increasing_trend(model_id)) =>
        /\ iter.crossed = StrictlyRising(iter.hospital)
        /\ (iter.outcome \in {"alert", "excluded"}) = StrictlyRising(iter.hospital)
        /\ ~StrictlyRising(iter.hospital) => iter.result = <<>>
        /\ ~apply_death_increase_filter =>
              ((iter.result # <<>>) = StrictlyRising(iter.hospital))

\* model 13 alerted on three stored months with rising positive rates
C9_Witness ==
    /\ Evaluated
    /\ is_increasing_trend(model_id)
    /\ iter.outcome = "alert"
    /\ RowsAt(iter.hospital, today[1], today[2]) # {}
    /\ ResolvedRate(iter.hospital, PeriodBack(today, 2)) > 0

\* C10: every result of model 13 names in trend_info the three consecutive calendar
\* months ending at the evaluation month, carries rate1 < rate2 < rate3 with rate3
\* the resolved current rate, and has threshold = rate1.
C10_TrendInfo ==
    (is_increasing_trend(model_id) /\ iter.result # <<>>) =>
        LET res == iter.result[1]
            p1 == PeriodBack(today, 2)
            p2 == PeriodBack(today, 1)
        IN  /\ res.trend_info # <<>>
            /\ res.trend_info[1].month1 = FormatPeriod(p1[1], p1[2])
            /\ res.trend_info[1].month2 = FormatPeriod(p2[1], p2[2])
            /\ res.trend_info[1].month3 = FormatPeriod(today[1], today[2])
            /\ res.trend_info[1].month3 = res.current_period
            /\ res.trend_info[1].rate1 < res.trend_info[1].rate2
            /\ res.trend_info[1].rate2 < res.trend_info[1].rate3
            /\ res.trend_info[1].rate1 = ResolvedRate(iter.hospital, p1)
            /\ res.trend_info[1].rate2 = ResolvedRate(iter.hospital, p2)
            /\ res.trend_info[1].rate3 = iter.current_mortality_rate
            /\ res.trend_info[1].rate3 = res.mortality_rate
            /\ res.threshold =
                   [num |-> res.trend_info[1].rate1, den |-> 1, vnum |-> 0, vden |-> 1]

\* a January evaluation: the trend runs from November over December of the year
\* before
C10_Witness ==
    /\ is_increasing_trend(model_id)
    /\ today = <<2025, 1>>
    /\ iter.result # <<>>
    /\ iter.result[1].trend_info[1].month1 = "2024-11"
    /\ iter.result[1].trend_info[1].month2 = "2024-12"
    /\ iter.result[1].trend_info[1].month3 = "2025-01"
    /\ iter.result[1].trend_info[1].rate1 > 0


-----------------------------------------------------------------------------
(* Properties of get_recent_months_data *)

Returned == pc = "returned"

Excluded(r) ==
    fn_in.exclude # <<>> /\ <<r.year, r.month>> = fn_in.exclude

\* the periods of the history that remain after the exclusion
RemainingPeriods ==
    {<<r.year, r.month>> : r \in {x \in Range(fn_in.monthly_data) : ~Excluded(x)}}

\* the min(lookback, n) most recent of the n remaining periods
ChosenPeriods ==
    {p \in RemainingPeriods :
        Cardinality({q \in RemainingPeriods : PeriodLess(p[1], p[2], q[1], q[2])})
            < fn_in.months}

Occurrences(df, r) == Cardinality({i \in 1..Len(df) : df[i] = r})

\* C4: get_recent_months_data returns no row of the excluded period, whatever the
\* lookback width and the history.
C4_NeverReturnsExcluded ==
    Returned => \A i \in 1..Len(fn_out[1]) : ~Excluded(fn_out[1][i])

\* the history held rows of the excluded period and of other periods, and rows
\* were returned
C4_Witness ==
    /\ Returned
    /\ \E i \in 1..Len(fn_in.monthly_data) : Excluded(fn_in.monthly_data[i])
    /\ \E i \in 1..Len(fn_in.monthly_data) : ~Excluded(fn_in.monthly_data[i])
    /\ Len(fn_out[1]) > 0

\* C5: the rows returned are exactly the rows of the min(lookback, n) most recent of
\* the n distinct periods that remain after the exclusion: each such row as often
\* as the history holds it, and no row of an older or of the excluded period.
C5_MostRecentPeriods ==
    Returned =>
        /\ {<<r.year, r.month>> : r \in Range(fn_out[1])} = ChosenPeriods
        /\ Cardinality(ChosenPeriods) = Min(fn_in.months, Cardinality(RemainingPeriods))
        /\ \A r \in HelperRows :
              Occurrences(fn_out[1], r) =
                  IF <<r.year, r.month>> \in ChosenPeriods
                  THEN Occurrences(fn_in.monthly_data, r) ELSE 0

\* an unsorted history with two rows of one period, of which an older period was
\* cut off by the lookback width
C5_Witness ==
    /\ Returned
    /\ fn_in.months >= 1
    /\ Cardinality(RemainingPeriods) > fn_in.months
    /\ \E i, j \in 1..Len(fn_in.monthly_data) :
           /\ i < j
           /\ PeriodLess(fn_in.monthly_data[i].year, fn_in.monthly_data[i].month,
                         fn_in.monthly_data[j].year, fn_in.monthly_data[j].month)
    /\ \E i, j \in 1..Len(fn_out[1]) :
           /\ i # j
           /\ fn_out[1][i].year = fn_out[1][j].year
           /\ fn_out[1][i].month = fn_out[1][j].month

-----------------------------------------------------------------------------
(* get_last_6_months_mortality called on its own *)

\* months before, at and after the turn of the year
SeriesPeriods == {<<2024, 8>>, <<2024, 12>>, <<2025, 1>>, <<2025, 5>>, <<2025, 6>>}

SeriesRows ==
    {[year |-> p[1], month |-> p[2], mortality_rate |-> r] : p \in SeriesPeriods, r \in {1, 2}}

SeriesHistories == UNION {[1..n -> SeriesRows] : n \in 0..MaxSeriesRows}

CallSeries ==
    /\ pc = "call_series"
    /\ fn_out' = <<get_last_6_months_mortality(fn_in.monthly_data, fn_in.current_year,
                                               fn_in.current_month)>>
    /\ pc' = "series_returned"
    /\ UNCHANGED <<sync, warehouse, insert_log, hospital_statistics, daily_mortality, checked_month, other, store, today, live_fetch, expected_fetch, error_log, model_id, apply_death_increase_filter,
                   hospitals, idx, current_month_live_data, expected_death_pct_dict,
                   results, iter, fn_in>>

InitSeries ==
    /\ pc = "call_series"
    /\ fn_in \in [monthly_data : SeriesHistories, current_year : {2025},
                  current_month : 1..12]
    /\ fn_out = <<>>
    /\ HelperIdle

SpecSeries == InitSeries /\ [][CallSeries]_vars

\* the rates of the rows of a history for one period
RatesAt(df, p) == {df[i].mortality_rate : i \in {j \in 1..Len(df) : df[j].year = p[1] /\ df[j].month = p[2]}}

\* C11: get_last_6_months_mortality returns exactly 6 entries, oldest first, for
\* the 6 consecutive calendar months that end at the evaluation month (reaching
\* into the previous year for January to May); an entry holds the rate of the
\* history's row for its month when there is one and 0 otherwise.
C11_LastSixMonths ==
    pc = "series_returned" =>
        LET out == fn_out[1]
            ev == <<fn_in.current_year, fn_in.current_month>>
        IN  /\ Len(out) = 6
            /\ \A i \in 1..6 :
                  LET p == PeriodBack(ev, 6 - i)
                  IN  /\ out[i].period = FormatPeriod(p[1], p[2])
                      /\ IF RatesAt(fn_in.monthly_data, p) = {}
                         THEN out[i].mortality_rate = 0
                         ELSE out[i].mortality_rate \in RatesAt(fn_in.monthly_data, p)

\* a series for an evaluation month before June that holds a rate of the previous
\* year and a month without a row
C11_Witness ==
    /\ pc = "series_returned"
    /\ fn_in.current_month <= 5
    /\ fn_out[1][1].period = "2024-12" \/ fn_out[1][2].period = "2024-12"
    /\ \E i \in 1..6 : fn_out[1][i].mortality_rate > 0 /\ fn_out[1][i].period = "2024-12"
    /\ \E i \in 1..6 : fn_out[1][i].mortality_rate = 0
    /\ fn_out[1][6].mortality_rate > 0

-----------------------------------------------------------------------------
(* Ranking of the returned list *)

\* the value of the model's designated metric in a result: deaths for models 1-4,
\* smr for models 5-8, mortality_rate for models 9-13
RankMetric(x) ==
    LET n == ModelNumber(model_id)
    IN  IF n <= 4 THEN Rat(x.deaths, 1)
        ELSE IF n <= 8 THEN x.smr[1]
        ELSE Rat(x.mortality_rate, 1)

\* position of a hospital in the roster of the run
RosterPosition(h) == CHOOSE i \in 1..Len(hospitals) : hospitals[i] = h

-----------------------------------------------------------------------------
(* Unknown model ids *)

\* C13: a run requested with an id that is not one of model1..model13 does not
\* raise, and returns an empty list.
C13_UnknownIdEmpty ==
    model_id \in UnknownIds =>
        /\ pc # "raised"
        /\ pc = "done" => results = <<>>

-----------------------------------------------------------------------------
(* Exceptions inside the loop *)

\* the results, in roster order, of the first n hospitals of the roster that are
\* not in skip, each evaluated with the inputs of the run
RECURSIVE ResultsWithout(_, _)
ResultsWithout(skip, n) ==
    IF n = 0 THEN <<>>
    ELSE LET h == hospitals[n]
             all_data == get_monthly_data(store, <<h>>, <<>>, <<>>)
             it == HospitalIteration(model_id, apply_death_increase_filter, h, all_data,
                       current_month_live_data, expected_death_pct_dict,
                       today[1], today[2])
         IN  ResultsWithout(skip, n - 1) \o (IF h \in skip THEN <<>> ELSE it.result)

\* C14: a hospital whose iteration raised produces no result; the loop still goes
\* through the whole roster and the run returns; the returned list is the one the
\* run would return if the failing hospitals were not in the roster.
C14_ExceptionSkipsHospital ==
    /\ error_log # <<>> => pc \in {"loop", "done"}
    /\ pc = "done" =>
          /\ idx = Len(hospitals)
          /\ \A i \in 1..Len(results) : results[i].hospital_name \notin Range(error_log)
          /\ results = SortResults(model_id, ResultsWithout(Range(error_log), Len(hospitals)))

\* the first hospital raised, though it would have alerted, and the second was
\* still evaluated and returned
C14_Witness ==
    /\ pc = "done"
    /\ error_log = <<"h1">>
    /\ Len(results) = 1
    /\ results[1].hospital_name = "h2"
    /\ HospitalIteration(model_id, apply_death_increase_filter, "h1",
           get_monthly_data(store, <<"h1">>, <<>>, <<>>), current_month_live_data,
           expected_death_pct_dict, today[1], today[2]).result # <<>>

-----------------------------------------------------------------------------
(* Failed batch fetches *)

\* C15: a run returns a list only when it was computed from all its inputs: it
\* never returns after the live-aggregate batch fetch or the
\* expected-death-percentage batch fetch failed (it fails explicitly instead).
C15_FullListOrFailure ==
    pc = "done" => (live_fetch # "failed" /\ expected_fetch # "failed")

-----------------------------------------------------------------------------
(* SMR models without a usable expected death percentage *)

\* the hospital has a positive expected death percentage in the prefetched map
HasPositivePct(h) ==
    h \in DOMAIN expected_death_pct_dict /\ expected_death_pct_dict[h] > 0

\* C16: under the SMR models 5-8 every hospital in the result list has an expected
\* death percentage in the prefetched map and that percentage is above 0.
C16_SmrNeedsExpectedPct ==
    (pc \in {"loop", "done"} /\ model_id \in {"model5", "model6", "model7", "model8"}) =>
        \A i \in 1..Len(results) : HasPositivePct(results[i].hospital_name)

\* two hospitals with the same rows; the first has an expected percentage of 0 or
\* less and is not returned, the second has a positive one and is returned
C16_Witness ==
    /\ pc = "done"
    /\ model_id \in {"model5", "model6", "model7", "model8"}
    /\ hospitals = <<"h1", "h2">>
    /\ "h1" \in DOMAIN expected_death_pct_dict
    /\ expected_death_pct_dict["h1"] <= 0
    /\ {[r EXCEPT !.hospital_name = "h2"] : r \in HistoryOf("h1")} = HistoryOf("h2")
    /\ ~HasResult("h1")
    /\ HasResult("h2")

-----------------------------------------------------------------------------
(* Hospitals without current-month data *)

\* the hospital has neither a store row for the evaluation month nor a live entry
NoCurrentData(h) ==
    /\ RowsAt(h, today[1], today[2]) = {}
    /\ h \notin DOMAIN current_month_live_data

\* C17: a hospital with no store row for the current month and no live-aggregate
\* entry is resolved to 0 deaths and a rate of 0 and is not in the result list,
\* under every model 1-13 (all stored deaths and rates are non-negative).
C17_ZeroNeverAlerts ==
    /\ (Evaluated /\ NoCurrentData(iter.hospital)) =>
          /\ iter.current_deaths = 0
          /\ iter.current_mortality_rate = 0
          /\ iter.result = <<>>
    /\ pc \in {"loop", "done"} =>
          \A i \in 1..Len(results) : ~NoCurrentData(results[i].hospital_name)

\* a hospital without current data was compared with a baseline of 0 computed from
\* its history, in a run whose live fetch succeeded, and did not alert
C17_Witness ==
    /\ Evaluated
    /\ NoCurrentData(iter.hospital)
    /\ live_fetch = "ok"
    /\ iter.threshold # <<>>
    /\ iter.threshold[1].num = 0 /\ iter.threshold[1].vnum = 0
    /\ \E r \in HistoryOf(iter.hospital) : r.deaths > 0
    /\ iter.outcome = "no_alert"

-----------------------------------------------------------------------------
(* Scenario: deaths 1, 2, 2, 5 from January to April, 6 in May *)

\* the hospital of the scenario was evaluated under model 1 or 2 with 6 deaths in May
ScenarioEvaluated ==
    /\ Evaluated
    /\ model_id \in {"model1", "model2"}
    /\ iter.current_deaths = 6

\* the baseline of the last iteration is the number b
BaselineIs(b) ==
    /\ iter.threshold # <<>>
    /\ iter.threshold[1].num = b * iter.threshold[1].den
    /\ iter.threshold[1].vnum = 0

\* the alert fired, and the filter, when enabled, suppressed it
FiredAndFiltered ==
    /\ iter.crossed
    /\ apply_death_increase_filter => (iter.outcome = "excluded" /\ iter.result = <<>>)
    /\ ~apply_death_increase_filter => (iter.outcome = "alert" /\ iter.result # <<>>)

-----------------------------------------------------------------------------
(* Model taxonomy *)

\* the lookback width of the table: 3 periods for odd models, 6 for even ones
TableWidth == IF ModelNumber(model_id) % 2 = 1 THEN 3 ELSE 6

\* the rows the table's lookback holds: those of the TableWidth most recent periods
\* of the hospital's history other than the excluded one
TableLookback ==
    LET rows == {r \in HistoryOf(iter.hospital) : <<r.year, r.month>> # iter.exclude}
        Later(r) == {o \in rows : PeriodLess(r.year, r.month, o.year, o.month)}
    IN  {r \in rows : Cardinality({<<o.year, o.month>> : o \in Later(r)}) < TableWidth}

\* numerator of the table's metric for a pair (deaths, mortality rate); the
\* denominator is TableDen
TableNum(deaths, mortality_rate) ==
    IF ModelNumber(model_id) <= 4 THEN deaths ELSE mortality_rate

TableDen ==
    IF ModelNumber(model_id) \in 5..8 THEN expected_death_pct_dict[iter.hospital] ELSE 1

\* the baseline t is the table's statistic of the lookback rows
TableStatistic(t) ==
    LET rows == iter.recent_data
        n == Len(rows)
        d == TableDen
        a(i) == TableNum(rows[i].deaths, rows[i].mortality_rate)
        sum == SumNum([i \in 1..n |-> Rat(a(i), 1)], n)
        squares == SumSq([i \in 1..n |-> Rat(a(i), 1)], n)
    IN  IF ModelNumber(model_id) \in {1, 2, 5, 6, 9, 10}
        THEN /\ t.vnum = 0
             /\ \E i \in 1..n : t.num * d = a(i) * t.den
             /\ \A i \in 1..n : t.num * d >= a(i) * t.den
        ELSE /\ t.num * n * d = sum * t.den
             /\ n > 1 => t.vnum * n * (n - 1) * d * d = (n * squares - sum * sum) * t.vden
             /\ n = 1 => t.vnum = 0

\* C19: under each model 1-12 the lookback holds the rows of the 3 (odd models) or
\* 6 (even models) most recent periods besides the excluded one, the compared
\* value is the deaths (1-4), the SMR (5-8) or the mortality rate (9-12) of the
\* current month, the baseline is the MAX (1, 2, 5, 6, 9, 10) or the mean plus one
\* sample standard deviation (3, 4, 7, 8, 11, 12) of that metric over the lookback,
\* and an emitted result carries that baseline as its threshold.
C19_Taxonomy ==
    (Evaluated /\ model_id # "model13" /\ iter.outcome # "no_expected_pct") =>
        /\ Range(iter.recent_data) = TableLookback
        /\ iter.threshold # <<>>
        /\ TableStatistic(iter.threshold[1])
        /\ iter.threshold_value[1].num * TableDen
               = TableNum(iter.current_deaths, iter.current_mortality_rate)
                   * iter.threshold_value[1].den
        /\ iter.result # <<>> => iter.result[1].threshold = iter.threshold[1]

\* model 7 (SMR, 3 periods, mean + 1 SD) took 3 of the 7 earlier months, found a
\* spread among them and emitted a result
C19_Witness ==
    /\ Evaluated
    /\ model_id = "model7"
    /\ Cardinality(HistoryOf(iter.hospital)) >= 8
    /\ Len(iter.recent_data) = 3
    /\ iter.threshold # <<>>
    /\ iter.threshold[1].vnum > 0
    /\ iter.result # <<>>

-----------------------------------------------------------------------------
(* MEAN + 1 SD over a single period *)

\* the last iteration ran a MEAN+1SD model on a lookback of one period
SinglePeriodLookback ==
    /\ Evaluated
    /\ model_id \in {"model3", "model4", "model7", "model8", "model11", "model12"}
    /\ iter.outcome # "no_expected_pct"
    /\ Cardinality({<<iter.recent_data[i].year, iter.recent_data[i].month>> :
                        i \in 1..Len(iter.recent_data)}) = 1

\* C20: under the MEAN+1SD models a lookback of a single period gives a defined
\* baseline equal to the value of that period, with nothing added, and the
\* hospital is compared with it: it fires exactly when its current value is above
\* that value.
C20_SinglePointBaseline ==
    SinglePeriodLookback =>
        LET row == iter.recent_data[1]
        IN  /\ Len(iter.recent_data) = 1
            /\ iter.threshold # <<>>
            /\ iter.threshold[1].vnum = 0
            /\ iter.threshold[1].vden > 0
            /\ iter.threshold[1].num * TableDen
                   = TableNum(row.deaths, row.mortality_rate) * iter.threshold[1].den
            /\ iter.crossed = (TableNum(iter.current_deaths, iter.current_mortality_rate)
                                  > TableNum(row.deaths, row.mortality_rate))

\* model 4 compared a hospital with the deaths of its only earlier month, which
\* were not 0, and emitted a result with that number as threshold
C20_Witness ==
    /\ SinglePeriodLookback
    /\ model_id = "model4"
    /\ iter.recent_data[1].deaths > 0
    /\ iter.result # <<>>
    /\ iter.result[1].threshold.num = iter.recent_data[1].deaths * iter.result[1].threshold.den

-----------------------------------------------------------------------------
(* The current month in the six-month series of a result *)

LastEntry(r) == r.last_6_months_mortality[Len(r.last_6_months_mortality)]

\* C29: in every result of every model the last entry of last_6_months_mortality
\* has the period of current_period and the mortality rate of the result's own
\* mortality_rate field, also when the current month came from the live aggregate
C29_SeriesEndsWithCurrent ==
    \A i \in 1..Len(results) :
        /\ Len(results[i].last_6_months_mortality) > 0
        /\ LastEntry(results[i]).period = results[i].current_period
        /\ LastEntry(results[i]).mortality_rate = results[i].mortality_rate

-----------------------------------------------------------------------------
(* SMR models against the mortality-% models with the same baseline *)

\* model 5 against model 9 and model 6 against model 10 (MAX baselines)
Counterpart(mid) ==
    CASE mid = "model5" -> "model9"
      [] mid = "model6" -> "model10"
      [] mid = "model9" -> "model5"
      [] mid = "model10" -> "model6"

\* the expected-percentage maps an SMR run over the same roster can hold: the
\* run's own map when it is an SMR run, any fetched map otherwise
MapsOfCounterpart ==
    IF is_smr(model_id) THEN {expected_death_pct_dict}
    ELSE ExpectedMaps(Range(hospitals))

\* whether the hospital of the last iteration is in the result list of model mid
\* evaluated on the same store, live map, filter and evaluation month
DecidesAlert(mid, expected) ==
    HospitalIteration(mid, apply_death_increase_filter, iter.hospital,
        get_monthly_data(store, <<iter.hospital>>, <<>>, <<>>),
        current_month_live_data, expected, today[1], today[2]).result # <<>>

\* C30: for the same store, live map and filter, a hospital whose expected death
\* percentage is present and above 0 is in the result list of model 5 exactly when
\* it is in that of model 9, and of model 6 exactly when in that of model 10
C30_SmrDecidesLikePercentage ==
    (pc \in {"loop", "done"} /\ iter.hospital # ""
        /\ model_id \in {"model5", "model6", "model9", "model10"}) =>
        \A expected \in MapsOfCounterpart :
            (iter.hospital \in DOMAIN expected /\ expected[iter.hospital] > 0) =>
                (DecidesAlert(model_id, expected)
                    <=> DecidesAlert(Counterpart(model_id), expected))

\* model 5 returns a hospital with a positive expected percentage whose current
\* rate is above the highest rate of the lookback, as model 9 does
C30_Witness ==
    /\ pc = "done"
    /\ model_id = "model5"
    /\ HasPositivePct(iter.hospital)
    /\ Len(iter.recent_data) >= 2
    /\ Len(results) = 1
    /\ DecidesAlert("model9", expected_death_pct_dict)

-----------------------------------------------------------------------------
(* An evaluation run across the turn of a month *)

\* the period after period p
NextPeriod(p) == IF p[2] = 12 THEN <<p[1] + 1, 1>> ELSE <<p[1], p[2] + 1>>

\* midnight of the last day of the month passes while a run is in its loop:
\* date.today() of lines 293-295 returns the next month from then on
MonthChanges ==
    /\ pc = "loop"
    /\ today = checked_month
    /\ today' = NextPeriod(today)
    /\ UNCHANGED <<store, live_fetch, expected_fetch, error_log, pc, model_id,
                   apply_death_increase_filter, hospitals, idx, current_month_live_data,
                   expected_death_pct_dict, results, iter, fn_in, fn_out,
                   sync, warehouse, insert_log, hospital_statistics, daily_mortality, checked_month, other>>

NextClock ==
    \/ Next
    \/ MonthChanges

SpecClock == InitRoster /\ [][NextClock]_vars

\* C28: all results of one run carry the same current_period, and it is the month
\* for which the run checked the store and fetched the live aggregate, even if the
\* month changes between the start of the run and a later hospital
C28_OnePeriodPerRun ==
    pc \in {"loop", "done"} =>
        \A i \in 1..Len(results) :
            results[i].current_period = FormatPeriod(checked_month[1], checked_month[2])

-----------------------------------------------------------------------------
(* Writers of the store: MortalityDatabase.insert_monthly_data *)

MaxInserts == 3         \* a sequence of at most MaxInserts insert_monthly_data calls

\* an INSERT into a table without the UNIQUE constraint
InsertAppend(table, hospital_name, year, month, total_patients, deaths, mortality_rate) ==
    table \cup {[hospital_name |-> hospital_name, year |-> year, month |-> month,
                 total_patients |-> total_patients, deaths |-> deaths,
                 mortality_rate |-> mortality_rate]}

\* INSERT OR REPLACE under UNIQUE(hospital_name, year, month): the row of the same
\* key, if any, is deleted and the new row inserted
insert_monthly_data(table, hospital_name, year, month, total_patients, deaths, mortality_rate) ==
    {r \in table : ~(r.hospital_name = hospital_name /\ r.year = year /\ r.month = month)}
        \cup {[hospital_name |-> hospital_name, year |-> year, month |-> month,
               total_patients |-> total_patients, deaths |-> deaths,
               mortality_rate |-> mortality_rate]}

\* the arguments of the calls: two hospitals, two months, two sets of figures
InsertArgs ==
    {MonthlyRow(h, p, v) : h \in {"h1", "h2"}, p \in EvalPeriods,
                           v \in {MonthlyValues(0, 10000), MonthlyValues(1, 10000)}}

\* one call of insert_monthly_data by any caller
InsertCall ==
    /\ pc = "idle"
    /\ Len(insert_log) < MaxInserts
    /\ \E a \in InsertArgs :
          /\ store' = insert_monthly_data(store, a.hospital_name, a.year, a.month,
                                          a.total_patients, a.deaths, a.mortality_rate)
          /\ insert_log' = Append(insert_log, a)
    /\ UNCHANGED <<today, live_fetch, expected_fetch, error_log, pc, model_id,
                   apply_death_increase_filter, hospitals, idx, current_month_live_data,
                   expected_death_pct_dict, results, iter, fn_in, fn_out,
                   sync, warehouse, hospital_statistics, daily_mortality,
                   checked_month, other>>

\* an empty table
InitInsert ==
    /\ today = <<2025, 1>>
    /\ store = {}
    /\ RunIdle

SpecInsert == InitInsert /\ [][InsertCall]_vars

KeyOf(r) == <<r.hospital_name, r.year, r.month>>

\* the positions of the calls made for key k
CallsFor(k) == {i \in 1..Len(insert_log) : KeyOf(insert_log[i]) = k}

\* the arguments of the most recent call for key k
LastInsert(k) ==
    insert_log[CHOOSE i \in CallsFor(k) : \A j \in CallsFor(k) : j <= i]

\* C21: after any sequence of insert_monthly_data calls the store holds at most one
\* record per (hospital_name, year, month), the record of a key carries the values
\* of the most recent insert for that key whatever was inserted for other keys
\* since, and repeating the last insert leaves the records unchanged
C21_InsertOrReplace ==
    /\ \A r1, r2 \in store : KeyOf(r1) = KeyOf(r2) => r1 = r2
    /\ \A r \in store : CallsFor(KeyOf(r)) # {} /\ r = LastInsert(KeyOf(r))
    /\ \A i \in 1..Len(insert_log) : LastInsert(KeyOf(insert_log[i])) \in store
    /\ Len(insert_log) > 0 =>
          LET a == insert_log[Len(insert_log)]
          IN  insert_monthly_data(store, a.hospital_name, a.year, a.month,
                  a.total_patients, a.deaths, a.mortality_rate) = store

\* a key is written, another key is written, the first key is overwritten with
\* other figures: two records, the first key's with the figures of the third call
C21_Witness ==
    /\ Len(insert_log) = 3
    /\ KeyOf(insert_log[1]) = KeyOf(insert_log[3])
    /\ KeyOf(insert_log[2]) # KeyOf(insert_log[1])
    /\ insert_log[1] # insert_log[3]
    /\ store = {insert_log[2], insert_log[3]}

-----------------------------------------------------------------------------
(* sync_month(year, month), one sqlite transaction per row, beside an evaluation run *)

\* query_current_month_mortality_all_hospitals(year, month): one row per hospital
\* with activity in the raw facts, ordered by hospital name
query_current_month_mortality_all_hospitals(facts, year, month) ==
    LET names == SelectSeq(HospitalOrder, LAMBDA h : h \in DOMAIN facts)
    IN  [i \in 1..Len(names) |->
            [hospital_name |-> names[i],
             total_patients |-> facts[names[i]].total_patients,
             deaths |-> facts[names[i]].deaths,
             mortality_rate |-> facts[names[i]].mortality_rate,
             year |-> year, month |-> month]]

\* lines 22-64: the check for existing rows and the prompt, the connection, the query
SyncStart(year, month) ==
    /\ sync.pc = "idle"
    /\ LET existing_data == get_monthly_data(store, <<>>, <<year, month>>, <<year, month>>)
           df == query_current_month_mortality_all_hospitals(warehouse, year, month)
       IN  \/ /\ Len(existing_data) > 0              \* the answer is not 'y'
              /\ sync' = [NoSync EXCEPT !.pc = "declined", !.year = year, !.month = month]
           \/ sync' = [NoSync EXCEPT !.pc = "exited",  \* sys.exit(1): connection or query
                                     !.year = year, !.month = month]
           \/ sync' = [NoSync EXCEPT !.pc = IF Len(df) = 0 THEN "done" ELSE "insert",
                                     !.year = year, !.month = month, !.df = df]
    /\ UNCHANGED <<store, today, live_fetch, expected_fetch, error_log, pc, model_id,
                   apply_death_increase_filter, hospitals, idx, current_month_live_data,
                   expected_death_pct_dict, results, iter, fn_in, fn_out,
                   warehouse, insert_log, hospital_statistics, daily_mortality,
                   checked_month, other>>

\* lines 71-100: one row of df
SyncInsert ==
    /\ sync.pc = "insert"
    /\ sync.inserted_count + sync.updated_count < Len(sync.df)
    /\ LET row == sync.df[sync.inserted_count + sync.updated_count + 1]
           existing == get_monthly_data(store, <<row.hospital_name>>,
                           <<sync.year, sync.month>>, <<sync.year, sync.month>>)
       IN  /\ store' = insert_monthly_data(store, row.hospital_name, sync.year, sync.month,
                           row.total_patients, row.deaths, row.mortality_rate)
           /\ insert_log' = Append(insert_log,
                  MonthlyRow(row.hospital_name, <<sync.year, sync.month>>, row))
           /\ sync' = IF Len(existing) > 0
                      THEN [sync EXCEPT !.updated_count = @ + 1]
                      ELSE [sync EXCEPT !.inserted_count = @ + 1]
    /\ UNCHANGED <<today, live_fetch, expected_fetch, error_log, pc, model_id,
                   apply_death_increase_filter, hospitals, idx, current_month_live_data,
                   expected_death_pct_dict, results, iter, fn_in, fn_out,
                   warehouse, hospital_statistics, daily_mortality, checked_month, other>>

\* lines 105-115: the loop is over
SyncFinish ==
    /\ sync.pc = "insert"
    /\ sync.inserted_count + sync.updated_count = Len(sync.df)
    /\ sync' = [sync EXCEPT !.pc = "done"]
    /\ fn_in' = [op |-> "sync_month", year |-> sync.year, month |-> sync.month]
    /\ UNCHANGED <<store, today, live_fetch, expected_fetch, error_log, pc, model_id,
                   apply_death_increase_filter, hospitals, idx, current_month_live_data,
                   expected_death_pct_dict, results, iter, fn_out,
                   warehouse, insert_log, hospital_statistics, daily_mortality,
                   checked_month, other>>

\* the models of the runs beside a sync: one of each metric and the trend model
SyncModelIds == {"model1", "model5", "model9", "model13"}

\* the live aggregate of a run is the aggregate of the raw facts the sync reads
LiveFromWarehouse ==
    live_fetch' = "ok" =>
        current_month_live_data' =
            [h \in DOMAIN warehouse \cap Range(hospitals') |-> warehouse[h]]

NextSync ==
    \/ SyncStart(today[1], today[2])
    \/ SyncInsert
    \/ SyncFinish
    \/ \E mid \in SyncModelIds, filter \in BOOLEAN : StartRun(mid, filter) /\ LiveFromWarehouse
    \/ ProcessHospital
    \/ FinishRun

\* two hospitals with a row for the month before the evaluation month, any rows
\* for the evaluation month, and any current-month activity in the raw facts
InitSync ==
    /\ today = <<2025, 1>>
    /\ store \in {t \in Tables({"h1", "h2"}, today, 2, RosterRowVals, {}) :
                     \A h \in {"h1", "h2"} : \E r \in t : r.hospital_name = h /\ r.year = 2024}
    /\ RunNotStarted
    /\ warehouse \in LiveMaps({"h1", "h2"}, LiveVals)
    /\ sync = NoSync
    /\ insert_log = <<>>
    /\ hospital_statistics = {}
    /\ daily_mortality = {}
    /\ checked_month = <<>>
    /\ other = NoRun

SpecSync == InitSync /\ [][NextSync]_vars

\* C25: a hospital that has no store row for the evaluation month and has
\* current-month activity in the raw facts is resolved from the live aggregate
\* (unless the live query failed), also when other hospitals have a store row
\* for that month
C25_LivePerHospital ==
    (/\ pc \in {"loop", "done"}
     /\ Evaluated
     /\ RowsAt(iter.hospital, iter.current_year, iter.current_month) = {}
     /\ iter.hospital \in DOMAIN warehouse
     /\ live_fetch # "failed") => iter.source = "live"

-----------------------------------------------------------------------------
(* Table hospital_statistics (calculate_statistics, recalculate_statistics) *)

\* the row of one hospital from its monthly rows: the mean sum/n, the deviation
\* numpy's std() of the values array returns (the square root of the population
\* variance vnum/vden, which is 0.0 and not NaN for a single value, so that the
\* pd.isna branch is never taken), and the threshold mean + 3 deviations
StatisticsRow(hospital, monthly_data) ==
    LET mortality_rates == RateColumn(monthly_data)
        n == Len(mortality_rates)
        s == SumNum(mortality_rates, n)
        q == SumSq(mortality_rates, n)
    IN  [hospital_name |-> hospital,
         avg_mortality_rate |-> [num |-> s, den |-> n],
         std_deviation |-> [vnum |-> n * q - s * s, vden |-> n * n],
         threshold_3sd |-> [num |-> s, den |-> n,
                            vnum |-> 9 * (n * q - s * s), vden |-> n * n]]

\* MortalityDatabase.update_statistics: INSERT OR REPLACE under UNIQUE(hospital_name)
update_statistics(stats, row) ==
    {r \in stats : r.hospital_name # row.hospital_name} \cup {row}

RECURSIVE StatisticsLoop(_, _, _, _)
\* the loop over the roster: the first k hospitals are done
StatisticsLoop(table, stats, roster, k) ==
    IF k = 0 THEN stats
    ELSE LET done == StatisticsLoop(table, stats, roster, k - 1)
             monthly_data == get_monthly_data(table, <<roster[k]>>, <<>>, <<>>)
         IN  IF Len(monthly_data) = 0 THEN done
             ELSE update_statistics(done, StatisticsRow(roster[k], monthly_data))

\* initialize_data.calculate_statistics(db)
calculate_statistics(table, stats) ==
    StatisticsLoop(table, stats, get_all_hospitals(table), Len(get_all_hospitals(table)))

\* daily_update.recalculate_statistics(db): the same loop
recalculate_statistics(table, stats) ==
    StatisticsLoop(table, stats, get_all_hospitals(table), Len(get_all_hospitals(table)))

-----------------------------------------------------------------------------
(* Two evaluation runs at the same time over a store that is not written *)

\* the models of the two runs
ConcurrentModelIds == {"model1", "model13"}

\* what the live aggregate holds for a hospital in these runs: a rate above the
\* rates of the store
ConcurrentLiveVals == {MonthlyValues(MaxDeaths, 5000)}

\* values of the store's rows in these runs: no deaths, MaxDeaths deaths, and
\* MaxDeaths deaths at twice the rate
ConcurrentRowVals == RosterRowVals \cup {MonthlyValues(MaxDeaths, 5000)}

\* a results list that is a module-level list shared by the calls
SharedList(own, foreign) == foreign

\* line 214: results = [] is a local of the call
LocalList(own, foreign) == own

\* lines 210-278 of the second run
OtherStart(mid, filter) ==
    /\ other.pc = "idle"
    /\ LET roster == get_all_hospitals(store)
           current_month_data_check == get_monthly_data(store, <<>>, today, today)
           has_current_month_in_db == Len(current_month_data_check) > 0
       IN  \E fetched \in (IF is_smr(mid) THEN ExpectedMaps(Range(roster)) ELSE {<<>>}),
              live_df \in (IF ~has_current_month_in_db
                           THEN LiveMaps(Range(roster), ConcurrentLiveVals) ELSE {<<>>}) :
              other' = [pc |-> "loop", model_id |-> mid,
                        apply_death_increase_filter |-> filter,
                        hospitals |-> roster, idx |-> 0,
                        current_month_live_data |-> live_df,
                        expected_death_pct_dict |-> fetched,
                        results |-> <<>>]
    /\ UNCHANGED <<store, today, live_fetch, expected_fetch, error_log, pc, model_id,
                   apply_death_increase_filter, hospitals, idx, current_month_live_data,
                   expected_death_pct_dict, results, iter, fn_in, fn_out,
                   sync, warehouse, insert_log, hospital_statistics, daily_mortality,
                   checked_month>>

\* lines 280-572 of the second run
OtherProcessHospital ==
    /\ other.pc = "loop"
    /\ other.idx < Len(other.hospitals)
    /\ LET hospital == other.hospitals[other.idx + 1]
           all_data == get_monthly_data(store, <<hospital>>, <<>>, <<>>)
           it == HospitalIteration(other.model_id, other.apply_death_increase_filter,
                     hospital, all_data, other.current_month_live_data,
                     other.expected_death_pct_dict, today[1], today[2])
       IN  other' = [other EXCEPT !.results = LocalList(@, results) \o it.result,
                                  !.idx = @ + 1]
    /\ UNCHANGED <<store, today, live_fetch, expected_fetch, error_log, pc, model_id,
                   apply_death_increase_filter, hospitals, idx, current_month_live_data,
                   expected_death_pct_dict, results, iter, fn_in, fn_out,
                   sync, warehouse, insert_log, hospital_statistics, daily_mortality,
                   checked_month>>

\* lines 574-592 of the second run
OtherFinish ==
    /\ other.pc = "loop"
    /\ other.idx = Len(other.hospitals)
    /\ other' = [other EXCEPT !.results = SortResults(other.model_id, @), !.pc = "done"]
    /\ UNCHANGED <<store, today, live_fetch, expected_fetch, error_log, pc, model_id,
                   apply_death_increase_filter, hospitals, idx, current_month_live_data,
                   expected_death_pct_dict, results, iter, fn_in, fn_out,
                   sync, warehouse, insert_log, hospital_statistics, daily_mortality,
                   checked_month>>

NextConcurrent ==
    \/ \E mid \in ConcurrentModelIds, filter \in BOOLEAN :
          StartRunWith(mid, filter, ConcurrentLiveVals)
    \/ ProcessHospital
    \/ FinishRun
    \/ \E mid \in ConcurrentModelIds, filter \in BOOLEAN : OtherStart(mid, filter)
    \/ OtherProcessHospital
    \/ OtherFinish

\* two hospitals, a statistics row for each hospital of the store
InitConcurrent ==
    /\ today = <<2025, 1>>
    /\ store \in Tables({"h1", "h2"}, today, 2, ConcurrentRowVals, {})
    /\ RunNotStarted
    /\ hospital_statistics = calculate_statistics(store, {})
    /\ daily_mortality = {}
    /\ checked_month = <<>>
    /\ other = NoRun
    /\ sync = NoSync
    /\ warehouse = <<>>
    /\ insert_log = <<>>

SpecConcurrent == InitConcurrent /\ [][NextConcurrent]_vars

RECURSIVE CollectAlone(_, _, _, _, _, _)
\* the results of the first k hospitals of the roster, collected by a call that
\* runs alone with the given prefetched maps
CollectAlone(mid, filter, roster, k, live, expected) ==
    IF k = 0 THEN <<>>
    ELSE CollectAlone(mid, filter, roster, k - 1, live, expected)
            \o HospitalIteration(mid, filter, roster[k],
                   get_monthly_data(store, <<roster[k]>>, <<>>, <<>>),
                   live, expected, today[1], today[2]).result

\* the list the call returns when it runs alone
ReturnsAlone(mid, filter, live, expected) ==
    LET roster == get_all_hospitals(store)
    IN  SortResults(mid, CollectAlone(mid, filter, roster, Len(roster), live, expected))

\* each run that is over has returned the list the same call returns alone
RunsReturnAsAlone ==
    /\ pc = "done" =>
          results = ReturnsAlone(model_id, apply_death_increase_filter,
                        current_month_live_data, expected_death_pct_dict)
    /\ other.pc = "done" =>
          other.results = ReturnsAlone(other.model_id, other.apply_death_increase_filter,
                              other.current_month_live_data, other.expected_death_pct_dict)

\* C24: of two runs interleaved in any way over a store that is not written, each
\* returns the list the same call returns alone, and no step of either run
\* writes, deletes or changes a row of monthly_mortality or hospital_statistics
C24_ConcurrentRunsIsolated ==
    /\ []RunsReturnAsAlone
    /\ [][store' = store /\ hospital_statistics' = hospital_statistics]_vars

\* both runs are over, their steps were interleaved, and each returned a result
\* the other did not
C24_Witness ==
    /\ pc = "done"
    /\ other.pc = "done"
    /\ model_id # other.model_id
    /\ Len(results) > 0
    /\ Len(other.results) > 0
    /\ results # other.results
    /\ hospital_statistics # {}

-----------------------------------------------------------------------------
(* daily_update(target_date); a date is <<year, month, day>> *)

IsLeapYear(year) == (year % 4 = 0 /\ year % 100 # 0) \/ year % 400 = 0

DaysInMonth(year, month) ==
    IF month = 2 THEN (IF IsLeapYear(year) THEN 29 ELSE 28)
    ELSE IF month \in {4, 6, 9, 11} THEN 30 ELSE 31

NextDay(d) ==
    IF d[3] < DaysInMonth(d[1], d[2]) THEN <<d[1], d[2], d[3] + 1>>
    ELSE IF d[2] < 12 THEN <<d[1], d[2] + 1, 1>>
    ELSE <<d[1] + 1, 1, 1>>

RECURSIVE AddDays(_, _)
\* d + timedelta(days=n)
AddDays(d, n) == IF n = 0 THEN d ELSE AddDays(NextDay(d), n - 1)

\* d.replace(day=day)
ReplaceDay(d, day) == <<d[1], d[2], day>>

\* line 69: target_date.day == (target_date.replace(day=28) + timedelta(days=4)).day - 4
MonthEndDetected(target_date) ==
    target_date[3] = AddDays(ReplaceDay(target_date, 28), 4)[3] - 4

\* d1 <= d2, as the comparison of the ISO strings
DateLE(d1, d2) ==
    \/ d1[1] < d2[1]
    \/ d1[1] = d2[1] /\ d1[2] < d2[2]
    \/ d1[1] = d2[1] /\ d1[2] = d2[2] /\ d1[3] <= d2[3]

\* MortalityDatabase.insert_daily_data: INSERT OR REPLACE under UNIQUE(hospital_name, date)
insert_daily_data(table, hospital_name, date_obj, total_patients, deaths, mortality_rate) ==
    {r \in table : ~(r.hospital_name = hospital_name /\ r.date = date_obj)}
        \cup {[hospital_name |-> hospital_name, date |-> date_obj,
               total_patients |-> total_patients, deaths |-> deaths,
               mortality_rate |-> mortality_rate]}

RECURSIVE InsertDailyLoop(_, _, _, _)
\* lines 56-64: the first k rows of df are inserted
InsertDailyLoop(table, df, target_date, k) ==
    IF k = 0 THEN table
    ELSE insert_daily_data(InsertDailyLoop(table, df, target_date, k - 1),
             df[k].hospital_name, target_date, df[k].total_patients, df[k].deaths,
             df[k].mortality_rate)

RECURSIVE SumRows(_)
\* SUM(total_patients), SUM(deaths) over the rows of a SELECT
SumRows(rows) ==
    IF rows = {} THEN [total_patients |-> 0, deaths |-> 0]
    ELSE LET r == CHOOSE x \in rows : TRUE
             rest == SumRows(rows \ {r})
         IN  [total_patients |-> rest.total_patients + r.total_patients,
              deaths |-> rest.deaths + r.deaths]

\* line 130: deaths / total_patients * 100, not rounded; in hundredths of a
\* percent as the quotient num/den
UnroundedRate(deaths, total_patients) ==
    IF total_patients > 0 THEN Rat(10000 * deaths, total_patients) ELSE Rat(0, 1)

RECURSIVE AggregationLoop(_, _, _, _, _)
\* update_monthly_aggregation, lines 109-139: the first k hospitals are done
AggregationLoop(table, daily, month_end_date, roster, k) ==
    IF k = 0 THEN table
    ELSE LET done == AggregationLoop(table, daily, month_end_date, roster, k - 1)
             start_date == ReplaceDay(month_end_date, 1)
             selected == {r \in daily : /\ r.hospital_name = roster[k]
                                        /\ DateLE(start_date, r.date)
                                        /\ DateLE(r.date, month_end_date)}
             result == SumRows(selected)
         IN  IF selected = {} THEN done
             ELSE insert_monthly_data(done, roster[k], month_end_date[1],
                      month_end_date[2], result.total_patients, result.deaths,
                      UnroundedRate(result.deaths, result.total_patients))

\* update_monthly_aggregation(db, month_end_date): the roster is read before the loop
update_monthly_aggregation(table, daily, month_end_date) ==
    AggregationLoop(table, daily, month_end_date, get_all_hospitals(table),
                    Len(get_all_hospitals(table)))

\* check_alerts(db, check_date): the daily rows of the date above the threshold
check_alerts(stats, daily, check_date) ==
    {r.hospital_name : r \in {x \in daily :
        /\ x.date = check_date
        /\ \E st \in stats : /\ st.hospital_name = x.hospital_name
                              /\ ThresholdCrossed(Rat(x.mortality_rate, 1),
                                                  st.threshold_3sd)}}

\* query_daily_mortality(target_date): one row per hospital with discharges on the
\* date, ordered by hospital name, the rate rounded to two decimals
query_daily_mortality(facts) ==
    LET names == SelectSeq(HospitalOrder, LAMBDA h : h \in DOMAIN facts)
    IN  [i \in 1..Len(names) |->
            [hospital_name |-> names[i],
             total_patients |-> facts[names[i]].total_patients,
             deaths |-> facts[names[i]].deaths,
             mortality_rate |-> facts[names[i]].mortality_rate]]

\* the figures of a hospital on one day
DailyFigures == {MonthlyValues(0, 10000), MonthlyValues(MaxDeaths, 10000)}

\* the answers of the daily query
DailyFrames == {query_daily_mortality(f) : f \in LiveMaps({"h1", "h2"}, DailyFigures)}

\* the dates of a leap year and of the year after it
TargetDates ==
    {d \in {2024, 2025} \X (1..12) \X (1..31) : d[3] <= DaysInMonth(d[1], d[2])}

\* daily_update(target_date), once, with df the answer of the daily query; an
\* empty df ends the call at line 46
daily_update(target_date, df) ==
    /\ pc = "idle"
    /\ sync.pc # "insert"
    /\ fn_out = <<>>
    /\ fn_in' = [op |-> "daily_update", target_date |-> target_date, df |-> df]
    /\ IF Len(df) = 0
       THEN /\ fn_out' = [aggregation_ran |-> FALSE, alerts |-> {}]
            /\ UNCHANGED <<store, daily_mortality, hospital_statistics>>
       ELSE LET daily == InsertDailyLoop(daily_mortality, df, target_date, Len(df))
                monthly == IF MonthEndDetected(target_date)
                           THEN update_monthly_aggregation(store, daily, target_date)
                           ELSE store
                stats == recalculate_statistics(monthly, hospital_statistics)
            IN  /\ daily_mortality' = daily
                /\ store' = monthly
                /\ hospital_statistics' = stats
                /\ fn_out' = [aggregation_ran |-> MonthEndDetected(target_date),
                              alerts |-> check_alerts(stats, daily, target_date)]
    /\ UNCHANGED <<today, live_fetch, expected_fetch, error_log, pc, model_id,
                   apply_death_increase_filter, hospitals, idx, current_month_live_data,
                   expected_death_pct_dict, results, iter, sync, warehouse, insert_log,
                   checked_month, other>>

NextDaily == \E target_date \in TargetDates, df \in DailyFrames : daily_update(target_date, df)

\* a store whose statistics are up to date
InitDaily ==
    /\ today = <<2025, 1>>
    /\ store \in Tables({"h1"}, <<2023, 12>>, 2, RosterRowVals, {})
    /\ RunNotStarted
    /\ hospital_statistics = calculate_statistics(store, {})
    /\ daily_mortality = {}
    /\ checked_month = <<>>
    /\ other = NoRun
    /\ sync = NoSync
    /\ warehouse = <<>>
    /\ insert_log = <<>>

SpecDaily == InitDaily /\ [][NextDaily]_vars

\* C26: daily_update(target_date) runs update_monthly_aggregation exactly when
\* target_date is the last day of its month (for a date with daily data)
C26_AggregatesAtMonthEnd ==
    (fn_in # <<>> /\ fn_in.op = "daily_update" /\ Len(fn_in.df) > 0) =>
        (fn_out.aggregation_ran
            <=> fn_in.target_date[3] = DaysInMonth(fn_in.target_date[1], fn_in.target_date[2]))

-----------------------------------------------------------------------------
(* update_monthly_aggregation(db, month_end_date) called on its own.  The REAL   *)
(* column mortality_rate of monthly_mortality is a quotient num/den of          *)
(* hundredths of a percent here, since the aggregation stores a quotient that   *)
(* is not rounded.                                                              *)

\* the figures of a hospital on one day: 1 death of 3, of 4 or of 200 patients
AggregationFigures ==
    {[total_patients |-> 3, deaths |-> 1, mortality_rate |-> MortalityRate(1, 3)],
     [total_patients |-> 4, deaths |-> 1, mortality_rate |-> MortalityRate(1, 4)],
     [total_patients |-> 200, deaths |-> 1, mortality_rate |-> MortalityRate(1, 200)]}

\* the last two days of January 2025
AggregationDays == {<<2025, 1, 30>>, <<2025, 1, 31>>}

\* the tables daily_mortality with at most one row per hospital and day
DailyTables ==
    LET cells == {"h1", "h2"} \X AggregationDays
    IN  {{[hospital_name |-> c[1], date |-> c[2],
           total_patients |-> f[c][1].total_patients, deaths |-> f[c][1].deaths,
           mortality_rate |-> f[c][1].mortality_rate] : c \in {x \in cells : f[x] # <<>>}} :
            f \in [cells -> {<<>>} \cup {<<v>> : v \in AggregationFigures}]}

\* a row of monthly_mortality as the backfill writes it: the rate rounded
RoundedRow(h, p, deaths, total_patients) ==
    [hospital_name |-> h, year |-> p[1], month |-> p[2],
     total_patients |-> total_patients, deaths |-> deaths,
     mortality_rate |-> Rat(MortalityRate(deaths, total_patients), 1)]

MonthEndAggregation(month_end_date) ==
    /\ pc = "idle"
    /\ fn_in = <<>>
    /\ fn_in' = [op |-> "update_monthly_aggregation", month_end_date |-> month_end_date]
    /\ store' = update_monthly_aggregation(store, daily_mortality, month_end_date)
    /\ UNCHANGED <<today, live_fetch, expected_fetch, error_log, pc, model_id,
                   apply_death_increase_filter, hospitals, idx, current_month_live_data,
                   expected_death_pct_dict, results, iter, fn_out, sync, warehouse,
                   insert_log, hospital_statistics, daily_mortality, checked_month, other>>

NextAggregate == \E month_end_date \in AggregationDays : MonthEndAggregation(month_end_date)

\* December rows of both hospitals from the backfill, daily rows of late January
InitAggregate ==
    /\ today = <<2025, 1>>
    /\ store = {RoundedRow(h, <<2024, 12>>, 1, 3) : h \in {"h1", "h2"}}
    /\ RunNotStarted
    /\ daily_mortality \in DailyTables
    /\ hospital_statistics = {}
    /\ checked_month = <<>>
    /\ other = NoRun
    /\ sync = NoSync
    /\ warehouse = <<>>
    /\ insert_log = <<>>

SpecAggregate == InitAggregate /\ [][NextAggregate]_vars

-----------------------------------------------------------------------------
(* The operations that land monthly records: backfill, sync_month, daily_update *)

RECURSIVE InsertMonthlyLoop(_, _, _)
\* initialize_data.py lines 61-70: the first k rows of df are inserted
InsertMonthlyLoop(table, df, k) ==
    IF k = 0 THEN table
    ELSE insert_monthly_data(InsertMonthlyLoop(table, df, k - 1), df[k].hospital_name,
             df[k].year, df[k].month, df[k].total_patients, df[k].deaths,
             df[k].mortality_rate)

\* query_monthly_mortality(client): the rows of all months, ordered by hospital,
\* year and month, the rate rounded; at least one row
BackfillFrames ==
    {OrderedRows(t) : t \in Tables({"h1", "h2"}, <<2024, 12>>, 2, RosterRowVals, {}) \ {{}}}

\* initialize_historical_data() that gets to its end (lines 49-88)
initialize_historical_data(df) ==
    /\ pc = "idle"
    /\ sync.pc = "idle"
    /\ fn_in = <<>>
    /\ LET monthly == InsertMonthlyLoop(store, df, Len(df))
       IN  /\ store' = monthly
           /\ hospital_statistics' = calculate_statistics(monthly, hospital_statistics)
    /\ fn_in' = [op |-> "initialize_historical_data", df |-> df]
    /\ UNCHANGED <<today, live_fetch, expected_fetch, error_log, pc, model_id,
                   apply_death_increase_filter, hospitals, idx, current_month_live_data,
                   expected_death_pct_dict, results, iter, fn_out, sync, warehouse,
                   insert_log, daily_mortality, checked_month, other>>

NextLanding ==
    \/ \E df \in BackfillFrames : initialize_historical_data(df)
    \/ SyncStart(today[1], today[2])
    \/ SyncInsert
    \/ SyncFinish
    \/ \E target_date \in AggregationDays, df \in DailyFrames : daily_update(target_date, df)

\* empty tables, and any current-month activity in the raw facts
InitLanding ==
    /\ today = <<2025, 1>>
    /\ store = {}
    /\ RunNotStarted
    /\ warehouse \in LiveMaps({"h1", "h2"}, LiveVals)
    /\ hospital_statistics = {}
    /\ daily_mortality = {}
    /\ checked_month = <<>>
    /\ other = NoRun
    /\ sync = NoSync
    /\ insert_log = <<>>

SpecLanding == InitLanding /\ [][NextLanding]_vars

\* the hospitals for which the operation that completed last has landed records
LandedHospitals ==
    IF fn_in = <<>> \/ sync.pc = "insert" THEN {}
    ELSE IF fn_in.op = "initialize_historical_data"
         THEN {fn_in.df[i].hospital_name : i \in 1..Len(fn_in.df)}
    ELSE IF fn_in.op = "sync_month"
         THEN {sync.df[i].hospital_name : i \in 1..Len(sync.df)}
    ELSE IF fn_in.op = "daily_update" /\ fn_out.aggregation_ran
         THEN {fn_in.df[i].hospital_name : i \in 1..Len(fn_in.df)}
    ELSE {}

\* the statistics row st is derived from the monthly rows of its hospital: the
\* mean of the rates, their standard deviation (population or sample; 0 for
\* fewer than 2 rates), and mean + 3 deviations
DerivedFrom(st, monthly_data) ==
    LET n == Len(monthly_data)
        s == SumNum(RateColumn(monthly_data), n)
        q == SumSq(RateColumn(monthly_data), n)
    IN  /\ st.avg_mortality_rate.num * n = s * st.avg_mortality_rate.den
        /\ IF n < 2 THEN st.std_deviation.vnum = 0
           ELSE \/ st.std_deviation.vnum * n * n = (n * q - s * s) * st.std_deviation.vden
                \/ st.std_deviation.vnum * n * (n - 1) = (n * q - s * s) * st.std_deviation.vden
        /\ st.threshold_3sd.num * st.avg_mortality_rate.den
              = st.avg_mortality_rate.num * st.threshold_3sd.den
        /\ st.threshold_3sd.vnum * st.std_deviation.vden
              = 9 * st.std_deviation.vnum * st.threshold_3sd.vden

\* C23: when an operation that lands monthly records for a hospital has completed,
\* the hospital has one statistics row and it is derived from all its monthly rows
C23_StatisticsFollowRecords ==
    \A h \in LandedHospitals :
        /\ Cardinality({st \in hospital_statistics : st.hospital_name = h}) = 1
        /\ \A st \in hospital_statistics :
              st.hospital_name = h =>
                  DerivedFrom(st, get_monthly_data(store, <<h>>, <<>>, <<>>))

-----------------------------------------------------------------------------
(* google_chat.py: sending the result of an evaluation to the chat webhooks *)

MaxWebhooks == 3        \* at most MaxWebhooks webhook URLs are configured
MaxAlertHospitals == 2  \* the evaluation returns at most MaxAlertHospitals results

\* what requests.post and raise_for_status do for the configured URLs, in order:
\* "ok", or "failed" when a RequestException is raised
Deliveries == UNION {[1..n -> {"ok", "failed"}] : n \in 0..MaxWebhooks}

\* calculate_model_results(model_id, apply_death_increase_filter=True) as seen
\* by its caller: it raises, or it returns a list of count results
Evaluations ==
    {[raises |-> TRUE, count |-> 0]}
        \cup {[raises |-> FALSE, count |-> n] : n \in 0..MaxAlertHospitals}

\* the post loop given up at the first delivery that fails
SendUntilFailure(deliveries) ==
    LET first == {i \in 1..Len(deliveries) :
                     /\ deliveries[i] = "failed"
                     /\ \A j \in 1..(i - 1) : deliveries[j] = "ok"}
        last == IF first = {} THEN Len(deliveries) ELSE CHOOSE i \in first : TRUE
    IN  IF Len(deliveries) = 0
        THEN [raised |-> "ValueError", posts |-> 0, results |-> <<>>]
        ELSE [raised |-> "", posts |-> last,
              results |-> [i \in 1..last |-> deliveries[i] = "ok"]]

\* send_google_chat_message(message): ValueError without a webhook URL, else
\* one post per URL and the map webhook_<idx> -> delivered
send_google_chat_message(deliveries) ==
    IF Len(deliveries) = 0
    THEN [raised |-> "ValueError", posts |-> 0, results |-> <<>>]
    ELSE [raised |-> "", posts |-> Len(deliveries),
          results |-> [i \in 1..Len(deliveries) |-> deliveries[i] = "ok"]]

\* the formatter send_model_alert picks for the message
AlertFormat(mid) ==
    IF mid = "model10" THEN "format_model_10_alert_message"
    ELSE "format_generic_alert_message"

\* send_model_alert(model_id): the dictionary returned, the posts made, and
\* whether an exception left the function
AlertOutcome(mid, evaluation, deliveries) ==
    IF evaluation.raises
    THEN [raised |-> FALSE, posts |-> 0, message |-> "",
          ret |-> [success |-> FALSE, hospitals_count |-> 0]]
    ELSE LET sent == send_google_chat_message(deliveries)
             success_count == Cardinality({i \in DOMAIN sent.results : sent.results[i]})
             total_webhooks == Len(sent.results)
         IN  IF sent.raised # ""
             THEN [raised |-> FALSE, posts |-> sent.posts, message |-> AlertFormat(mid),
                   ret |-> [success |-> FALSE, hospitals_count |-> evaluation.count]]
             ELSE [raised |-> FALSE, posts |-> sent.posts, message |-> AlertFormat(mid),
                   ret |-> [success |-> success_count > 0,
                            hospitals_count |-> evaluation.count,
                            webhooks_sent |-> success_count,
                            webhooks_total |-> total_webhooks]]

send_model_alert(mid, evaluation, deliveries) ==
    /\ pc = "idle"
    /\ fn_in = <<>>
    /\ fn_in' = [op |-> "send_model_alert", model_id |-> mid,
                 apply_death_increase_filter |-> TRUE,
                 evaluation |-> evaluation, deliveries |-> deliveries]
    /\ fn_out' = AlertOutcome(mid, evaluation, deliveries)
    /\ UNCHANGED <<store, today, live_fetch, expected_fetch, error_log, pc, model_id,
                   apply_death_increase_filter, hospitals, idx, current_month_live_data,
                   expected_death_pct_dict, results, iter, sync, warehouse, insert_log,
                   hospital_statistics, daily_mortality, checked_month, other>>

NextAlert ==
    \E mid \in ModelIds, evaluation \in Evaluations, deliveries \in Deliveries :
        send_model_alert(mid, evaluation, deliveries)

InitAlert ==
    /\ today = <<2025, 1>>
    /\ store = {}
    /\ RunIdle

SpecAlert == InitAlert /\ [][NextAlert]_vars

AlertSent == fn_in # <<>> /\ fn_in.op = "send_model_alert"

\* C27: send_model_alert posts to every configured webhook whatever the earlier
\* deliveries did, also for an empty result list; it reports success exactly when
\* the evaluation returned and some delivery succeeded; without a webhook, or
\* when the evaluation raises, it returns success = False and raises nothing
C27_AlertDelivery ==
    AlertSent =>
        LET evaluation == fn_in.evaluation
            deliveries == fn_in.deliveries
        IN  /\ ~fn_out.raised
            /\ ~evaluation.raises => fn_out.posts = Len(deliveries)
            /\ fn_out.ret.success
                  <=> (/\ ~evaluation.raises
                       /\ \E i \in 1..Len(deliveries) : deliveries[i] = "ok")
            /\ (Len(deliveries) = 0 \/ evaluation.raises) => ~fn_out.ret.success

\* an empty result list, the first delivery fails, a later one succeeds
C27_Witness ==
    /\ AlertSent
    /\ ~fn_in.evaluation.raises
    /\ fn_in.evaluation.count = 0
    /\ Len(fn_in.deliveries) = MaxWebhooks
    /\ fn_in.deliveries[1] = "failed"
    /\ fn_in.deliveries[MaxWebhooks] = "ok"
    /\ fn_out.posts = MaxWebhooks
    /\ fn_out.ret.success
    /\ fn_out.ret.webhooks_sent < fn_out.ret.webhooks_total

=============================================================================
